---- MODULE Spec2Model ----
(***************************************************************************)
(* Model of bikeshed's reference resolution: ReferenceManager.getRef over  *)
(* the three RefSource tiers (local, anchor-block, foreign) and the        *)
(* bibliography resolver ReferenceManager.getBiblioRef.                    *)
(*                                                                         *)
(* Strings the code takes apart (link texts, for values, method names)    *)
(* are sequences of tokens: "I/m(bar)" is <<"I","/","m","(","bar",")">>,   *)
(* every punctuation character being a token of its own.  URLs are         *)
(* sequences of code points, so that sorting by url is Python's string    *)
(* order.  An optional value (None or x) is a sequence of length <= 1.     *)
(***************************************************************************)
EXTENDS Integers, Sequences, FiniteSets, Bags, TLC

\* ------------------------------------------------------------------ bounds
\* The manager holds at most MaxSize items in all (tier entries, default
\* link rules, ignored specs together).
MaxSize == 3

\* The bundled biblio corpus holds entries for at most MaxKeys keys.
MaxKeys == 2

\* A biblio group is looked up for a key that is not held at most MaxMisses
\* times.
MaxMisses == 2

\* ------------------------------------------------------- generic helpers
None == <<>>
Some(x) == <<x>>
IsNone(o) == Len(o) = 0

Range(s) == {s[i] : i \in DOMAIN s}

RECURSIVE SelectSeqBy(_, _)
\* [x for x in s if x in keep], keep being a set
SelectSeqBy(s, keep) ==
    IF s = <<>> THEN <<>>
    ELSE IF Head(s) \in keep THEN <<Head(s)>> \o SelectSeqBy(Tail(s), keep)
    ELSE SelectSeqBy(Tail(s), keep)

\* str.endswith("()")
EndsWithParens(s) == Len(s) >= 2 /\ s[Len(s) - 1] = "(" /\ s[Len(s)] = ")"

\* str.startswith(p)
StartsWith(s, p) == Len(p) <= Len(s) /\ SubSeq(s, 1, Len(p)) = p

\* position of the first "/" of s, 0 when there is none
FirstSlash(s) ==
    IF \E i \in DOMAIN s : s[i] = "/"
    THEN CHOOSE i \in DOMAIN s : s[i] = "/" /\ \A j \in 1..(i - 1) : s[j] # "/"
    ELSE 0

\* Python's < on strings, on sequences of code points
RECURSIVE StrLess(_, _)
StrLess(a, b) ==
    IF b = <<>> THEN FALSE
    ELSE IF a = <<>> THEN TRUE
    ELSE IF Head(a) # Head(b) THEN Head(a) < Head(b)
    ELSE StrLess(Tail(a), Tail(b))

\* str.lower() on the spec names of the model
LowerName(s) ==
    CASE s = "S1" -> "s1"
      [] s = "S2" -> "s2"
      [] OTHER -> s

\* str.lower() on a token
LowerTok(t) ==
    CASE t = "Foo" -> "foo"
      [] t = "Bar" -> "bar"
      [] t = "A" -> "a"
      [] t = "B" -> "b"
      [] OTHER -> t

Lower(s) == [i \in DOMAIN s |-> LowerTok(s[i])]

\* h.unfixTypography: curly quotes back to straight ones (the token "rsquo"
\* stands for the right single quotation mark U+2019)
unfixTypography(s) == [i \in DOMAIN s |-> IF s[i] = "rsquo" THEN "'" ELSE s[i]]

\* ------------------------------------------------------------ config data
dfnTypes == {"dfn", "property", "descriptor", "value", "type", "argument", "method",
             "extended-attribute"}

linkTypeToDfnType(linkType) ==
    CASE linkType = "propdesc" -> {"property", "descriptor"}
      [] linkType = "functionish" -> {"method"}
      [] linkType = "idl" -> {"argument", "method", "extended-attribute"}
      [] linkType = "maybe" -> {"value", "type"}
      [] OTHER -> {}

\* the dfn types a link of type linkType may resolve to; {} for an unknown type
CompatibleTypes(linkType) ==
    IF linkType \in dfnTypes THEN {linkType} ELSE linkTypeToDfnType(linkType)

\* config.linkTypeIn(dfnType, linkType)
linkTypeIn(dfnType, linkType) == dfnType \in CompatibleTypes(linkType)

lowercaseTypes == {"dfn", "property", "descriptor", "value", "type", "propdesc", "maybe"}

linkStatuses == {"current", "snapshot", "local", "anchor-block"}

\* utils.linkTextVariations: the text itself comes first
linkTextVariations(text, linkType) == <<text>>

\* -------------------------------------------------------------- link fors
\* A linkFor argument is None, one string, or a list of strings.
NoFor == [k |-> "none", v |-> <<>>]
StrFor(s) == [k |-> "str", v |-> <<s>>]
ListFor(l) == [k |-> "list", v |-> l]
ForLess == StrFor(<<"/">>)

\* ------------------------------------------------------------------ state
VARIABLES
    testing,          \* ReferenceManager.testing
    defaultStatus,    \* ReferenceManager.defaultStatus
    shortname,        \* ReferenceManager.shortname (None until setSpecData)
    spec,             \* ReferenceManager.spec
    specLevel,        \* ReferenceManager.specLevel
    defaultSpecs,     \* ReferenceManager.defaultSpecs: rules per link text
    ignoredSpecs,     \* ReferenceManager.ignoredSpecs
    replacedSpecs,    \* ReferenceManager.replacedSpecs
    localRefs,        \* localRefs.refs, in insertion order
    anchorBlockRefs,  \* anchorBlockRefs.refs, in insertion order
    foreignRefs,      \* foreignRefs.refs, in insertion order
    methods,          \* foreignRefs.methods
    call,             \* the last getRef call: its arguments and its outcome
    specs,            \* ReferenceManager.specs
    biblios,          \* ReferenceManager.biblios: candidates per key
    loadedBiblioGroups,     \* ReferenceManager.loadedBiblioGroups
    biblioKeys,             \* ReferenceManager.biblioKeys
    biblioNumericSuffixes,  \* ReferenceManager.biblioNumericSuffixes
    preferredBiblioNames,   \* ReferenceManager.preferredBiblioNames
    corpus,           \* the biblio data files the requester serves
    fetched,          \* the biblio group files fetched so far, a bag
    missed,           \* the lookups of a key not held so far, by group, a bag
    bcall,            \* the last biblio call: its arguments and its outcome
    disk,             \* the files under spec-data: content by path
    fcall             \* the last DataFileRequester.fetch call and its outcome

refVars == <<testing, defaultStatus, shortname, spec, specLevel, defaultSpecs,
             ignoredSpecs, replacedSpecs, localRefs, anchorBlockRefs, foreignRefs,
             methods, call>>

bibRest == <<biblios, loadedBiblioGroups, biblioKeys, biblioNumericSuffixes,
             preferredBiblioNames, corpus, fetched, missed, bcall>>
bibVars == <<specs, bibRest>>
fileVars == <<disk, fcall>>
vars == <<refVars, bibVars, fileVars>>

\* ------------------------------------------------- RefSource.queryRefs
\* utils.filterObsoletes: drop the entries of ignored specs, and the entries
\* of a replaced spec when its replacement is among the candidates.
utilsFilterObsoletes(refs, replaced, ignored) ==
    LET possibleSpecs == {refs[i].spec : i \in DOMAIN refs}
        moreIgnores == {p[1] : p \in {r \in replaced : Some(r[2]) \in possibleSpecs}}
        dropped == {Some(x) : x \in ignored \cup moreIgnores}
        keep == {r \in Range(refs) : r.spec \notin dropped}
    IN  SelectSeqBy(refs, keep)

\* stage 3 of queryRefs under a status hint
StatusHintAccepts(refs, hint, r) ==
    CASE hint = "current" -> r.status = "current"
      [] hint = "snapshot" ->
            \/ r.status = "snapshot"
            \/ /\ r.status = "current"
               /\ ~\E i \in DOMAIN refs : refs[i].status = "snapshot" /\ refs[i].spec = r.spec
      [] OTHER -> r.status = hint

\* stage 4 of queryRefs: does entry r survive the for filter.  A linkFor
\* selects the entries defined for one of its values, "/" the for-less ones
\* (the callers' use of it: addLocalDfns lines 252-273, getRef lines 366-377);
\* without a linkFor, a hint keeps the global entries and those it
\* intersects, or only the latter under explicitFor.
MatchFor(r, linkFor, linkForHint, explicitFor) ==
    CASE linkFor = ForLess -> r.for_ = <<>>
      [] linkFor.k # "none" -> \E i \in DOMAIN linkFor.v : linkFor.v[i] \in Range(r.for_)
      [] linkForHint.k # "none" ->
            \/ \E i \in DOMAIN linkForHint.v : linkForHint.v[i] \in Range(r.for_)
            \/ (r.for_ = <<>> /\ ~explicitFor)
      [] OTHER -> TRUE

QueryArgs == [linkType |-> None, text |-> None, spec |-> None, status |-> None,
              statusHint |-> None, linkFor |-> NoFor, linkForHint |-> NoFor,
              explicitFor |-> FALSE, export |-> None, ignoreObsoletes |-> FALSE]

Found(refs) == [refs |-> refs, failure |-> "none"]
Failed(reason) == [refs |-> <<>>, failure |-> reason]

\* the last stages of queryRefs: the export filter, then the obsolete filter
ByExport(r4, replaced, ignored, q) ==
    LET r5 == IF q.export = Some(TRUE) THEN SelectSeqBy(r4, {r \in Range(r4) : r.export})
              ELSE r4
    IN  IF r5 = <<>> THEN Failed("export")
        ELSE IF ~q.ignoreObsoletes THEN Found(r5)
        ELSE IF utilsFilterObsoletes(r5, replaced, ignored) = <<>> THEN Failed("ignored-specs")
        ELSE Found(utilsFilterObsoletes(r5, replaced, ignored))

\* the for stage of queryRefs
ByFor(r3, replaced, ignored, q) ==
    IF r3 = <<>> THEN Failed("status")
    ELSE IF \A i \in DOMAIN r3 : ~MatchFor(r3[i], q.linkFor, q.linkForHint, q.explicitFor)
    THEN Failed("for")
    ELSE ByExport(SelectSeqBy(r3, {r \in Range(r3) :
                                     MatchFor(r, q.linkFor, q.linkForHint, q.explicitFor)}),
                  replaced, ignored, q)

\* the status stage of queryRefs: an exact status, else the status hint
ByStatus(r2, replaced, ignored, q) ==
    IF r2 = <<>> THEN Failed("spec")
    ELSE ByFor(IF ~IsNone(q.status)
               THEN SelectSeqBy(r2, {r \in Range(r2) : r.status = q.status[1]})
               ELSE IF ~IsNone(q.statusHint)
               THEN SelectSeqBy(r2, {r \in Range(r2) :
                                       StatusHintAccepts(r2, q.statusHint[1], r)})
               ELSE r2,
               replaced, ignored, q)

\* the spec stage of queryRefs
BySpec(r1, replaced, ignored, q) ==
    IF r1 = <<>> THEN Failed("type")
    ELSE ByStatus(IF IsNone(q.spec) THEN r1
                  ELSE SelectSeqBy(r1, {r \in Range(r1) :
                                          r.spec = q.spec \/ r.shortname = q.spec}),
                  replaced, ignored, q)

\* the type stage of queryRefs
ByType(r0, replaced, ignored, q) ==
    IF r0 = <<>> THEN Failed("text")
    ELSE BySpec(IF IsNone(q.linkType) THEN r0
                ELSE SelectSeqBy(r0, {r \in Range(r0) :
                                        r.type \in CompatibleTypes(q.linkType[1])}),
                replaced, ignored, q)

\* RefSource.queryRefs on the entries of one tier; q is a QueryArgs record.
\* The entries are narrowed by text, type, spec, status, for, export and
\* obsolescence in that order; the first stage that leaves nothing names
\* the failure.
queryRefs(tier, replaced, ignored, q) ==
    ByType(IF IsNone(q.text) THEN tier
           ELSE SelectSeqBy(tier, {r \in Range(tier) : r.text = q.text[1]}),
           replaced, ignored, q)

\* ReferenceManager.filterObsoletes
filterObsoletes(refs) == utilsFilterObsoletes(refs, replacedSpecs, ignoredSpecs)

\* queryAllRefs consulting the foreign tier only when the document's own
\* tiers give nothing, as getRef does
queryAllRefsTiered(q) ==
    IF queryRefs(localRefs, {}, {}, q).refs \o queryRefs(anchorBlockRefs, {}, {}, q).refs # <<>>
    THEN queryRefs(localRefs, {}, {}, q).refs \o queryRefs(anchorBlockRefs, {}, {}, q).refs
    ELSE queryRefs(foreignRefs, replacedSpecs, ignoredSpecs, q).refs

\* ReferenceManager.queryAllRefs: the matches of the three tiers, local ones
\* first, then filtered once more when obsolete entries are to be ignored.
\* Only the foreign tier was given the manager's ignored and replaced sets.
queryAllRefs(q) ==
    IF q.ignoreObsoletes
    THEN filterObsoletes(queryRefs(localRefs, {}, {}, q).refs
                         \o queryRefs(anchorBlockRefs, {}, {}, q).refs
                         \o queryRefs(foreignRefs, replacedSpecs, ignoredSpecs, q).refs)
    ELSE queryRefs(localRefs, {}, {}, q).refs
         \o queryRefs(anchorBlockRefs, {}, {}, q).refs
         \o queryRefs(foreignRefs, replacedSpecs, ignoredSpecs, q).refs

\* ------------------------------------------------------- ambiguity reports
Diag(sev, kind, payload) == [kind |-> kind, payload |-> payload, sev |-> sev]

RECURSIVE ForPairs(_)
\* the (for, url) pairs simplifyPossibleRefs collects for a run of refs
ForPairs(refs) ==
    IF refs = <<>> THEN <<>>
    ELSE LET r == Head(refs)
             mine == IF r.for_ # <<>>
                     THEN [i \in DOMAIN r.for_ |-> [for_ |-> r.for_[i], url |-> r.url]]
                     ELSE <<[for_ |-> <<"/">>, url |-> r.url]>>
         IN  mine \o ForPairs(Tail(refs))

RefKey(r) == <<r.text, r.type, r.spec>>

RECURSIVE KeysInOrder(_, _)
\* the keys of forVals in insertion order
KeysInOrder(refs, seen) ==
    IF refs = <<>> THEN <<>>
    ELSE IF RefKey(Head(refs)) \in seen THEN KeysInOrder(Tail(refs), seen)
    ELSE <<RefKey(Head(refs))>> \o KeysInOrder(Tail(refs), seen \cup {RefKey(Head(refs))})

RECURSIVE SimplifyKeys(_, _, _)
SimplifyKeys(keys, refs, alwaysShowFor) ==
    IF keys = <<>> THEN <<>>
    ELSE LET k == Head(keys)
             fors == ForPairs(SelectSeqBy(refs, {r \in Range(refs) : RefKey(r) = k}))
             mine == IF Len(fors) >= 2 \/ alwaysShowFor
                     THEN [i \in DOMAIN fors |->
                             [text |-> k[1], type |-> k[2], spec |-> k[3],
                              for_ |-> Some(fors[i].for_), url |-> fors[i].url]]
                     ELSE <<[text |-> k[1], type |-> k[2], spec |-> k[3],
                             for_ |-> None, url |-> fors[1].url]>>
         IN  mine \o SimplifyKeys(Tail(keys), refs, alwaysShowFor)

\* the for value shown for every candidate
simplifyPossibleRefsAlways(refs, alwaysShowFor) ==
    SimplifyKeys(KeysInOrder(refs, {}), refs, TRUE)

simplifyPossibleRefs(refs, alwaysShowFor) ==
    SimplifyKeys(KeysInOrder(refs, {}), refs, alwaysShowFor)

\* refToText: the display string, as the tuple of the values it formats
refToText(ref) ==
    IF ref.for_ # None
    THEN <<"spec", ref.spec, "type", ref.type, "for", ref.for_[1], "text", ref.text>>
    ELSE <<"spec", ref.spec, "type", ref.type, "text", ref.text>>

RECURSIVE TextsInOrder(_, _)
TextsInOrder(possibleRefs, seen) ==
    IF possibleRefs = <<>> THEN <<>>
    ELSE LET t == refToText(Head(possibleRefs))
         IN  IF t \in seen THEN TextsInOrder(Tail(possibleRefs), seen)
             ELSE <<t>> \o TextsInOrder(Tail(possibleRefs), seen \cup {t})

\* the report raised with m.die instead of m.linkerror
reportMultiplePossibleRefsFatal(possibleRefs, linkFor, defaultRef) ==
    Diag("fatal", "multiple-refs", defaultRef.url)

\* reportMultiplePossibleRefs: one link error carrying the chosen default,
\* the distinguishable candidates and the indistinguishable groups
reportMultiplePossibleRefs(possibleRefs, linkFor, defaultRef) ==
    LET texts == TextsInOrder(possibleRefs, {})
        group(t) == SelectSeqBy(possibleRefs, {r \in Range(possibleRefs) : refToText(r) = t})
        uniqueTexts == SelectSeqBy(texts, {t \in Range(texts) : Len(group(t)) = 1})
        mergedTexts == SelectSeqBy(texts, {t \in Range(texts) : Len(group(t)) > 1})
    IN  Diag("linkerror", "multiple-refs",
             [linkFor |-> linkFor,
              chose |-> defaultRef.url,
              unique |-> uniqueTexts,
              merged |-> [i \in DOMAIN mergedTexts |->
                            [text |-> mergedTexts[i],
                             urls |-> [j \in DOMAIN group(mergedTexts[i]) |->
                                         group(mergedTexts[i])[j].url]]]])

reportAmbiguousForlessLink(forlessRefs, localMatches) ==
    LET l == simplifyPossibleRefs(localMatches, TRUE)
        f == simplifyPossibleRefs(forlessRefs, TRUE)
    IN  Diag("linkerror", "ambiguous-forless",
             [local |-> [i \in DOMAIN l |-> refToText(l[i])],
              forless |-> [i \in DOMAIN f |-> refToText(f[i])]])

\* ---------------------------------------------------------------- getRef
\* What one getRef call did beside returning: the tiers it queried in order,
\* the matches of each step, the parameters after the default-link rules.
NoTrace == [queried |-> <<>>, localMatches |-> <<>>, guard |-> "none",
            forlessRefs |-> <<>>, rule |-> None, linkType |-> "", spec |-> None,
            status |-> None, linkFor |-> NoFor, blockRefs |-> <<>>,
            firstFailure |-> "none", recovery |-> FALSE, retried |-> FALSE, possibleMethods |-> <<>>,
            methodRefs |-> <<>>, refs |-> <<>>, failure |-> "none"]

Outcome(ret, tier, diags, trace) ==
    [ret |-> ret, tier |-> tier, diags |-> diags, trace |-> trace]

AnyFor(refs) == \E i \in DOMAIN refs : refs[i].for_ # <<>>

Q(tier, q) == queryRefs(tier, replacedSpecs, ignoredSpecs, q)

\* sorted(localRefs, key=lambda x: x.url)[0]: the first entry of least url
RECURSIVE SmallestUrlFrom(_, _)
SmallestUrlFrom(refs, best) ==
    IF refs = <<>> THEN best
    ELSE IF StrLess(Head(refs).url, best.url) THEN SmallestUrlFrom(Tail(refs), Head(refs))
    ELSE SmallestUrlFrom(Tail(refs), best)

\* the first match, unsorted
SmallestUrlUnsorted(refs) == Head(refs)

SmallestUrl(refs) == SmallestUrlFrom(Tail(refs), Head(refs))

\* the entry getRef picks among several local matches; pick is the index
\* random.choice draws
ChooseLocal(refs, pick) == IF testing THEN SmallestUrl(refs) ELSE refs[pick]

\* the for-less exported matches the local guard finds (lines 370-378)
LocalForless(linkType, text) ==
    LET fq == [QueryArgs EXCEPT !.linkType = Some(linkType), !.text = Some(text),
                                !.linkFor = ForLess, !.export = Some(TRUE)]
        a == filterObsoletes(Q(anchorBlockRefs, fq).refs)
    IN  IF a = <<>>
        THEN [refs |-> filterObsoletes(Q(foreignRefs, fq).refs),
              queried |-> <<"anchor-block", "foreign">>]
        ELSE [refs |-> filterObsoletes(a), queried |-> <<"anchor-block">>]

\* line 339
ZeroRefsError(error, linkType) == error /\ linkType \notin {"maybe", "extended-attribute"}

\* the local tier queried whether or not a spec was given
UseLocalTierAlways(specArg) == TRUE

\* the test of line 357 inverted
UseLocalTierInverted(specArg) == ~IsNone(specArg)

\* line 357: local refs get precedence unless a spec was given
UseLocalTier(specArg) == IsNone(specArg)

\* the early exit of line 398 left out
LocalOnlyDropped(status) == FALSE

\* line 398
LocalOnly(status) == status = Some("local")

\* line 403
ConsultDefaults(specArg, status, linkFor) ==
    IsNone(specArg) \/ IsNone(status) \/ linkFor.k = "none"

\* the last anchor-block match instead of the first
BlockDefaultLast(blockRefs) == blockRefs[Len(blockRefs)]

\* lines 436-447: the anchor-block match returned
BlockDefault(blockRefs) == blockRefs[1]

\* lines 450-453
ExportFilter(specArg) == IF IsNone(specArg) THEN Some(TRUE) ELSE None

\* lines 467-472 (iterating a str linkFor yields characters, none ends in "()")
Recoverable(failure, linkType, linkFor) ==
    /\ failure # "none"
    /\ linkType \in {"argument", "idl"}
    /\ linkFor.k = "list"
    /\ \E i \in DOMAIN linkFor.v : EndsWithParens(linkFor.v[i])

\* line 559
TooManyTargets(zeroRefsError, methodRefs) == zeroRefsError /\ Len(methodRefs) > 1

\* does the guard of line 369 / line 430 look for for-less matches elsewhere
GuardApplies(matches, linkFor) ==
    matches # <<>> /\ linkFor.k = "none" /\ AnyFor(matches)

\* may the default-link rule d be applied given linkFor (lines 407-413)
RuleQualifies(d, linkType, linkFor) ==
    /\ linkTypeIn(d.type, linkType)
    /\ \/ linkFor.k = "none"
       \/ d.for = None
       \/ (linkFor.k = "str" /\ linkFor.v[1] = d.for[1])
       \/ (linkFor.k = "list" /\ d.for[1] \in Range(linkFor.v))

\* the first qualifying rule registered, not the last
PickRuleOldest(text, linkType, linkFor) ==
    LET vs == linkTextVariations(text, linkType)
        variedTexts == SelectSeqBy(vs, {v \in Range(vs) : v \in DOMAIN defaultSpecs})
    IN  IF variedTexts = <<>> THEN None
        ELSE LET rules == defaultSpecs[variedTexts[1]]
                 ok == {i \in DOMAIN rules : RuleQualifies(rules[i], linkType, linkFor)}
             IN  IF ok = {} THEN None
                 ELSE Some(rules[CHOOSE i \in ok : \A j \in ok : i <= j])

\* the rule lines 404-418 apply: the last qualifying rule registered for the
\* first text variation that has rules, None when there is none
PickRule(text, linkType, linkFor) ==
    LET vs == linkTextVariations(text, linkType)
        variedTexts == SelectSeqBy(vs, {v \in Range(vs) : v \in DOMAIN defaultSpecs})
    IN  IF variedTexts = <<>> THEN None
        ELSE LET rules == defaultSpecs[variedTexts[1]]
                 ok == {i \in DOMAIN rules : RuleQualifies(rules[i], linkType, linkFor)}
             IN  IF ok = {} THEN None
                 ELSE Some(rules[CHOOSE i \in ok : \A j \in ok : j <= i])

\* {c.url: c for c in candidates if c.text.startswith(prefix)}.values()
RECURSIVE DedupByUrl(_, _, _)
DedupByUrl(candidates, prefix, acc) ==
    IF candidates = <<>> THEN acc
    ELSE LET c == Head(candidates)
         IN  IF ~StartsWith(c.text, prefix) THEN DedupByUrl(Tail(candidates), prefix, acc)
             ELSE IF \E i \in DOMAIN acc : acc[i].url = c.url
             THEN DedupByUrl(Tail(candidates), prefix,
                             [i \in DOMAIN acc |-> IF acc[i].url = c.url THEN c ELSE acc[i]])
             ELSE DedupByUrl(Tail(candidates), prefix, Append(acc, c))

RECURSIVE GroupByShortname(_, _)
\* possibleMethods: the qualifying signatures grouped by shortname, groups
\* in order of first appearance
GroupByShortname(sigs, seen) ==
    IF sigs = <<>> THEN <<>>
    ELSE IF Head(sigs).shortname \in seen THEN GroupByShortname(Tail(sigs), seen)
    ELSE LET sn == Head(sigs).shortname
             grp == SelectSeqBy(sigs, {g \in Range(sigs) : g.shortname = sn})
         IN  <<[i \in DOMAIN grp |-> grp[i].argfullName]>>
             \o GroupByShortname(Tail(sigs), seen \cup {sn})

\* lines 491-499
PossibleMethods(methodSignatures, text, interfaceName) ==
    LET ok == {g \in Range(methodSignatures) :
                 /\ text \in Range(g.args)
                 /\ (IsNone(interfaceName) \/ interfaceName[1] \in Range(g.for))
                 /\ Some(g.shortname) # shortname}
    IN  GroupByShortname(SelectSeqBy(methodSignatures, ok), {})

\* "{interface}/{method}".format(...): None prints as the word None
FormatFor(pattern, interfaceName, method) ==
    IF pattern = 1
    THEN (IF IsNone(interfaceName) THEN <<"None">> ELSE interfaceName[1]) \o <<"/">> \o method
    ELSE method

RECURSIVE FirstFound(_, _)
\* the result the nested retry loops of lines 513-529 end with: that of the
\* first attempt that finds refs, else that of the last attempt
FirstFound(attempts, tierRefs) ==
    LET r == Q(tierRefs, Head(attempts))
    IN  IF r.refs # <<>> \/ Len(attempts) = 1 THEN r
        ELSE FirstFound(Tail(attempts), tierRefs)

\* the queries of lines 511-523, in the order the loops make them
RetryAttempts(text, linkType, specArg, status, interfaceName, group) ==
    LET statuses == <<Some("local"), status>>
        n == Len(group)
        at(k) == LET p == ((k - 1) \div (2 * n)) + 1
                     si == (((k - 1) \div n) % 2) + 1
                     mi == ((k - 1) % n) + 1
                 IN  [QueryArgs EXCEPT !.text = Some(text), !.linkType = Some(linkType),
                                       !.spec = specArg, !.status = statuses[si],
                                       !.linkFor = StrFor(FormatFor(p, interfaceName, group[mi])),
                                       !.ignoreObsoletes = TRUE]
    IN  [k \in 1..(4 * n) |-> at(k)]

\* the message of lines 568-608 for a failed foreign query
FailureMessage(failure) ==
    CASE failure \in {"text", "type"} -> "no-refs"
      [] failure = "export" -> "no-export"
      [] failure = "spec" -> "no-spec"
      [] failure = "for" -> "no-for"
      [] failure = "status" -> "no-status"
      [] failure = "ignored-specs" -> "only-ignored-specs"
      [] OTHER -> "programming-error"

KnownFailures == {"text", "type", "export", "spec", "for", "status", "ignored-specs"}

\* the failure reported whether or not errors are wanted
FailureDiagsUngated(failure, linkType, text, specArg, zeroRefsError) ==
    <<Diag("linkerror", FailureMessage(failure), [reason |-> failure, spec |-> specArg])>>

\* a custom property kept silent for every failure reason
FailureDiagsCustomSilent(failure, linkType, text, specArg, zeroRefsError) ==
    IF failure \notin KnownFailures
    THEN <<Diag("fatal", "programming-error", failure)>>
    ELSE IF /\ linkType \in {"property", "propdesc", "descriptor"}
            /\ StartsWith(text, <<"-", "-">>)
    THEN <<>>
    ELSE IF zeroRefsError
    THEN <<Diag("linkerror", FailureMessage(failure), [reason |-> failure, spec |-> specArg])>>
    ELSE <<>>

\* lines 568-608: the diagnostics of a failed foreign query
FailureDiags(failure, linkType, text, specArg, zeroRefsError) ==
    IF failure \notin KnownFailures
    THEN <<Diag("fatal", "programming-error", failure)>>
    ELSE IF /\ failure \in {"text", "type"}
            /\ linkType \in {"property", "propdesc", "descriptor"}
            /\ StartsWith(text, <<"-", "-">>)
    THEN <<>>
    ELSE IF zeroRefsError
    THEN <<Diag("linkerror", FailureMessage(failure), [reason |-> failure, spec |-> specArg])>>
    ELSE <<>>

\* lines 616-622: the default among several foreign matches
DefaultRef(refs, linkType) ==
    IF linkType = "propdesc" /\ \E i \in DOMAIN refs : refs[i].type = "property"
    THEN refs[CHOOSE i \in DOMAIN refs :
                 /\ refs[i].type = "property"
                 /\ \A j \in 1..(i - 1) : refs[j].type # "property"]
    ELSE refs[1]

\* lines 449-632: the foreign tier, the argument/idl recovery, the failure
\* classification and the choice among the matches
ForeignStep(linkType, text, specArg, status, linkFor, error, zeroRefsError, t) ==
    LET export == ExportFilter(specArg)
        fq == [QueryArgs EXCEPT !.text = Some(text), !.linkType = Some(linkType),
                                !.spec = specArg, !.status = status,
                                !.statusHint = Some(defaultStatus), !.linkFor = linkFor,
                                !.export = export, !.ignoreObsoletes = TRUE]
        first == Q(foreignRefs, fq)
        recover == Recoverable(first.failure, linkType, linkFor)
        lf == linkFor.v[CHOOSE i \in DOMAIN linkFor.v :
                          /\ EndsWithParens(linkFor.v[i])
                          /\ \A j \in 1..(i - 1) : ~EndsWithParens(linkFor.v[j])]
        slash == FirstSlash(lf)
        interfaceName == IF slash > 0 THEN Some(SubSeq(lf, 1, slash - 1)) ELSE None
        methodName == IF slash > 0 THEN SubSeq(lf, slash + 1, Len(lf)) ELSE lf
        possibleMethods == IF methodName \in DOMAIN methods
                           THEN PossibleMethods(methods[methodName], text, interfaceName)
                           ELSE <<>>
        retry == recover /\ possibleMethods # <<>>
        overloads == IF retry /\ Len(possibleMethods) > 1
                     THEN <<Diag("linkerror", "too-many-overloads", linkFor)>>
                     ELSE <<>>
        final == IF retry
                 THEN FirstFound(RetryAttempts(text, linkType, specArg, status,
                                               interfaceName, possibleMethods[1]),
                                 foreignRefs)
                 ELSE first
        methodPrefix == SubSeq(methodName, 1, Len(methodName) - 1)
        ifaceFor == IF IsNone(interfaceName) THEN NoFor ELSE StrFor(interfaceName[1])
        candidates == Q(localRefs, [QueryArgs EXCEPT !.linkType = Some("functionish"),
                                                     !.linkFor = ifaceFor]).refs
        localMethodRefs == DedupByUrl(candidates, methodPrefix, <<>>)
        cq == [QueryArgs EXCEPT !.linkType = Some("functionish"), !.spec = specArg,
                                !.status = status, !.statusHint = Some(defaultStatus),
                                !.linkFor = ifaceFor, !.export = export,
                                !.ignoreObsoletes = TRUE]
        methodRefs == IF localMethodRefs # <<>> THEN localMethodRefs
                      ELSE DedupByUrl(Q(anchorBlockRefs, cq).refs \o Q(foreignRefs, cq).refs,
                                      methodPrefix, <<>>)
        queried == t.queried \o <<"foreign">>
                   \o (IF retry THEN <<"foreign">> ELSE <<>>)
                   \o (IF recover THEN <<"local">> ELSE <<>>)
                   \o (IF recover /\ localMethodRefs = <<>>
                       THEN <<"anchor-block", "foreign">> ELSE <<>>)
        t3 == [t EXCEPT !.queried = queried,
                        !.firstFailure = first.failure,
                        !.recovery = recover,
                        !.retried = retry,
                        !.possibleMethods = IF recover THEN possibleMethods ELSE <<>>,
                        !.methodRefs = IF recover THEN methodRefs ELSE <<>>,
                        !.refs = final.refs,
                        !.failure = final.failure]
    IN  IF recover /\ TooManyTargets(zeroRefsError, methodRefs)
        THEN Outcome(None, "none",
                     overloads \o <<Diag("linkerror", "too-many-method-targets", linkFor)>>, t3)
        ELSE IF final.failure # "none"
        THEN Outcome(None, "none",
                     overloads \o FailureDiags(final.failure, linkType, text, specArg,
                                               zeroRefsError), t3)
        ELSE IF Len(final.refs) = 1
        THEN Outcome(Some(final.refs[1]), "foreign", overloads, t3)
        ELSE Outcome(Some(DefaultRef(final.refs, linkType)), "foreign",
                     overloads \o
                     (IF error
                      THEN <<reportMultiplePossibleRefs(simplifyPossibleRefs(final.refs, FALSE),
                                                        linkFor,
                                                        DefaultRef(final.refs, linkType))>>
                      ELSE <<>>), t3)

\* lines 402-447: the default-link rules and the anchor-block tier
BlockStep(linkType0, text, spec0, status0, linkFor0, error, zeroRefsError, t) ==
    LET consult == ConsultDefaults(spec0, status0, linkFor0)
        rule == IF consult THEN PickRule(text, linkType0, linkFor0) ELSE None
        specArg == IF rule # None /\ IsNone(spec0) THEN rule[1].spec ELSE spec0
        status == IF rule # None /\ IsNone(status0) THEN rule[1].status ELSE status0
        linkFor == IF rule # None /\ linkFor0.k = "none" /\ rule[1].for # None
                   THEN StrFor(rule[1].for[1]) ELSE linkFor0
        linkType == IF rule # None THEN rule[1].type ELSE linkType0
        bq == [QueryArgs EXCEPT !.linkType = Some(linkType), !.text = Some(text),
                                !.spec = specArg, !.linkFor = linkFor]
        blockRefs == Q(anchorBlockRefs, bq).refs
        guard == GuardApplies(blockRefs, linkFor)
        forlessRefs ==
            filterObsoletes(Q(foreignRefs,
                              [QueryArgs EXCEPT !.linkType = Some(linkType),
                                                !.text = Some(text), !.linkFor = ForLess,
                                                !.export = Some(TRUE)]).refs)
        t2 == [t EXCEPT !.queried = t.queried \o <<"anchor-block">>
                                    \o (IF guard THEN <<"foreign">> ELSE <<>>),
                        !.rule = rule, !.linkType = linkType, !.spec = specArg,
                        !.status = status, !.linkFor = linkFor, !.blockRefs = blockRefs,
                        !.forlessRefs = IF guard THEN forlessRefs ELSE <<>>]
    IN  IF guard /\ forlessRefs # <<>>
        THEN Outcome(None, "none", <<reportAmbiguousForlessLink(forlessRefs, blockRefs)>>,
                     [t2 EXCEPT !.guard = "anchor-block"])
        ELSE IF Len(blockRefs) = 1
        THEN Outcome(Some(BlockDefault(blockRefs)), "anchor-block", <<>>, t2)
        ELSE IF Len(blockRefs) > 1
        THEN Outcome(Some(BlockDefault(blockRefs)), "anchor-block",
                     <<reportMultiplePossibleRefs(simplifyPossibleRefs(blockRefs, FALSE),
                                                  linkFor, BlockDefault(blockRefs))>>, t2)
        ELSE ForeignStep(linkType, text, specArg, status, linkFor, error, zeroRefsError, t2)

\* lines 356-400: the local tier
LocalStep(linkType, text, specArg, status, linkFor, error, zeroRefsError, pick) ==
    LET useLocal == UseLocalTier(specArg)
        localMatches ==
            IF useLocal
            THEN Q(localRefs, [QueryArgs EXCEPT !.linkType = Some(linkType),
                                                !.text = Some(text),
                                                !.linkFor = linkFor]).refs
            ELSE <<>>
        guard == useLocal /\ GuardApplies(localMatches, linkFor)
        forless == LocalForless(linkType, text)
        t1 == [NoTrace EXCEPT !.queried = IF useLocal
                                          THEN <<"local">> \o (IF guard THEN forless.queried
                                                               ELSE <<>>)
                                          ELSE <<>>,
                              !.localMatches = localMatches,
                              !.linkType = linkType, !.spec = specArg, !.status = status,
                              !.linkFor = linkFor,
                              !.forlessRefs = IF guard THEN forless.refs ELSE <<>>]
    IN  IF guard /\ forless.refs # <<>>
        THEN Outcome(None, "none",
                     <<reportAmbiguousForlessLink(forless.refs, localMatches)>>,
                     [t1 EXCEPT !.guard = "local"])
        ELSE IF Len(localMatches) = 1
        THEN Outcome(Some(localMatches[1]), "local", <<>>, t1)
        ELSE IF Len(localMatches) > 1
        THEN Outcome(Some(ChooseLocal(localMatches, pick)), "local",
                     IF error THEN <<Diag("linkerror", "multiple-local", <<>>)>> ELSE <<>>,
                     t1)
        ELSE IF LocalOnly(status)
        THEN Outcome(None, "none", <<>>, t1)
        ELSE BlockStep(linkType, text, specArg, status, linkFor, error, zeroRefsError,
                       [t1 EXCEPT !.forlessRefs = <<>>])

\* ReferenceManager.getRef; statusHint, linkForHint and explicitFor are left
\* at their defaults.  pick is the index random.choice draws among several
\* local matches outside testing mode.
getRef(linkType, text0, spec0, status, linkFor, error, pick) ==
    LET zeroRefsError == ZeroRefsError(error, linkType)
        text1 == unfixTypography(text0)
        text == IF linkType \in lowercaseTypes THEN Lower(text1) ELSE text1
        specArg == IF IsNone(spec0) THEN None ELSE Some(LowerName(spec0[1]))
    IN  IF ~IsNone(status) /\ status[1] \notin linkStatuses
        THEN Outcome(None, "none",
                     IF error THEN <<Diag("fatal", "unknown-status", status[1])>> ELSE <<>>,
                     NoTrace)
        ELSE LocalStep(linkType, text, specArg, status, linkFor, error, zeroRefsError, pick)

\* --------------------------------------------------------- the data used
\* link texts, for values and method names, as token sequences
foo == <<"foo">>
bar == <<"bar">>
customProp == <<"-", "-", "x">>
forA == <<"A">>
forI == <<"I">>
m_bar == <<"m", "(", "bar", ")">>
m_bar_baz == <<"m", "(", "bar", ",", " ", "baz", ")">>
m_ == <<"m", "(", ")">>
I_m_ == <<"I", "/", "m", "(", ")">>
I_m_bar == <<"I", "/", "m", "(", "bar", ")">>

\* "#" is code point 35, "a" 97, "b" 98, "f" 102
Url(c, n) == <<c, 48 + n>>

Ref(text, type, for_, vshortname, sn, status, url, export) ==
    [text |-> text, type |-> type, for_ |-> for_, spec |-> Some(vshortname),
     shortname |-> Some(sn), level |-> Some(1), status |-> status, url |-> url,
     export |-> export, el |-> ""]

\* entries the foreign corpus can supply
ForeignPool ==
    { Ref(foo, "descriptor", <<>>, "s1-1", "s1", "current", Url(102, 1), TRUE),
      Ref(foo, "property", <<>>, "s2-1", "s2", "current", Url(102, 2), TRUE),
      Ref(bar, "argument", <<I_m_bar>>, "s1-1", "s1", "current", Url(102, 3), FALSE),
      Ref(m_bar, "method", <<forI>>, "s1-1", "s1", "current", Url(102, 4), TRUE),
      Ref(customProp, "property", <<>>, "s1-1", "s1", "current", Url(102, 9), FALSE) }

\* entries an anchors block can supply
AnchorPool ==
    { Ref(foo, "property", <<>>, "s3-1", "s3", "anchor-block", Url(98, 1), TRUE),
      Ref(foo, "property", <<forA>>, "s3-1", "s3", "anchor-block", Url(98, 2), TRUE),
      Ref(m_bar_baz, "method", <<forI>>, "s3-1", "s3", "current", Url(98, 3), TRUE) }

\* definition elements of the document: <dfn> with id, data-dfn-type,
\* data-dfn-for and linking texts
Dfn(id, type, dfnFor, linkTexts) ==
    [id |-> id, noRef |-> FALSE, type |-> type, dfnFor |-> dfnFor, linkTexts |-> linkTexts]

DfnPool ==
    { Dfn(<<98>>, "property", None, <<foo>>),
      Dfn(<<97>>, "property", Some(<<forA>>), <<foo>>) }

\* methods.json
MethodsJson ==
    m_ :> << [argfullName |-> m_bar, args |-> <<bar>>, for |-> <<forI>>, shortname |-> "s1"],
             [argfullName |-> m_bar_baz, args |-> <<bar, <<"baz">>>>, for |-> <<forI>>,
              shortname |-> "s2"] >>

Rule(dfnSpec, dfnType, dfnStatus, dfnFor) ==
    [spec |-> dfnSpec, type |-> dfnType, status |-> dfnStatus, for |-> dfnFor]

\* the metadata of the document: its own names and its link defaults
Metadata(linkDefaults) ==
    [defaultRefStatus |-> None, status |-> "ED", shortname |-> "s2", level |-> 1,
     vshortname |-> "s2-1", linkDefaults |-> linkDefaults]

MetadataPool ==
    { Metadata(<<>>),
      Metadata(<<[term |-> foo,
                  defaults |-> <<Rule(Some("s1"), "property", None, None),
                                 Rule(None, "descriptor", None, Some(forA))>>]>>),
      Metadata(<<[term |-> foo,
                  defaults |-> <<Rule(Some("s3"), "property", Some("current"),
                                      Some(forI))>>]>>) }

IgnorablePool == {"s1-1"}

snapshotStatuses == {"WD", "CR", "PR", "REC"}
shortToLongStatus == {"ED", "WD", "CR", "PR", "REC", "UD"}

\* the getRef calls made
Request(linkType, text, spec0, status, linkFor, error) ==
    [linkType |-> linkType, text |-> text, spec |-> spec0, status |-> status,
     linkFor |-> linkFor, error |-> error]

\* the getRef calls made: links to foo and bar without a for and for "A",
\* argument links for ["A", "I/m()"], maybe links, a custom property, and an
\* unknown status (rejected before any other argument is looked at)
Requests ==
    { Request(tt[1], tt[2], sp, st, lf, er) :
        tt \in { <<"property", foo>>, <<"propdesc", foo>>, <<"argument", foo>>,
                 <<"argument", bar>> },
        sp \in {None, Some("S1")},
        st \in {None, Some("local"), Some("snapshot")},
        lf \in {NoFor, StrFor(forA)},
        er \in BOOLEAN }
    \cup { Request("argument", tx, sp, st, ListFor(<<forA, I_m_>>), er) :
             tx \in {foo, bar},
             sp \in {None, Some("S1")},
             st \in {None, Some("local"), Some("snapshot")},
             er \in BOOLEAN }
    \cup { Request("maybe", foo, sp, st, NoFor, er) :
             sp \in {None, Some("S1")},
             st \in {None, Some("local"), Some("snapshot")},
             er \in BOOLEAN }
    \cup { Request("property", customProp, None, None, NoFor, er) : er \in BOOLEAN }
    \cup { Request("property", foo, None, Some("bogus"), NoFor, er) : er \in BOOLEAN }

\* ------------------------------------------------ DataFileRequester
\* A path is the sequence of its segments; a file's content is a sequence
\* (of lines or of tokens), the empty sequence being the empty string.

\* DataFileRequester(type, fallback): fallback is None or another requester
Requester(type, fallback) == [type |-> type, fallback |-> fallback]

\* retrieve.py line 65
defaultRequester == Requester("latest", Some(Requester("readonly", None)))

\* DataFileRequester._buildPath
buildPath(segs, fileType) ==
    IF fileType = "readonly" THEN <<"spec-data", "readonly">> \o segs
    ELSE <<"spec-data">> \o segs

\* what fetch hands back: a value, or an exception
Returned(kind, data) == [raised |-> FALSE, value |-> [kind |-> kind, data |-> data]]
Raised(exc, location) == [raised |-> TRUE, exc |-> exc, location |-> location]

\* the str or the open stream over the content of a file
Opened(content, str) == Returned(IF str THEN "str" ELSE "stream", content)

\* the empty value is handed back even without okayToFail
failQuietly(location, str, okayToFail) == Opened(<<>>, str)

\* DataFileRequester._fail
fail(location, str, okayToFail) ==
    IF okayToFail THEN Opened(<<>>, str) ELSE Raised("OSError", location)

\* lines 33-38: the primary location could not be opened; sub is what the
\* fallback's fetch gave, None when there is no fallback
Fallback(sub, location, str, okayToFail) ==
    IF sub # None /\ ~sub[1].raised THEN sub[1] ELSE fail(location, str, okayToFail)

\* DataFileRequester.fetch (lines 21-38) on the files of files; type is
\* the type keyword, None when not given
RECURSIVE fetch(_, _, _, _, _, _)
fetch(self, files, segs, str, okayToFail, type) ==
    IF buildPath(segs, IF type = None THEN self.type ELSE type[1]) \in DOMAIN files
    THEN Opened(files[buildPath(segs, IF type = None THEN self.type ELSE type[1])], str)
    ELSE Fallback(IF self.fallback = None THEN None
                  ELSE Some(fetch(self.fallback[1], files, segs, str, okayToFail, None)),
                  buildPath(segs, IF type = None THEN self.type ELSE type[1]),
                  str, okayToFail)

\* ------------------------------------------------- the biblio resolver
\* line 644: the recursion depth beyond which getBiblioRef gives up
MaxBiblioDepth == 100

\* biblio keys, one token per character; "LF" stands for a line break
k_aa == <<"a", "a">>
k_AA == <<"A", "A">>
k_aa1 == <<"a", "a", "-", "1">>
k_aa2 == <<"a", "a", "-", "2">>
k_bb == <<"b", "b">>
k_zz == <<"z", "z">>
k_rfc2119 == <<"r", "f", "c", "2", "1", "1", "9">>
k_aa_2020 == <<"a", "a", "-", "2", "0", "2", "0", "0", "1", "0", "1">>
k_aa_2021 == <<"a", "a", "-", "2", "0", "2", "1", "0", "1", "0", "1">>

\* the keys the bundled corpus may hold an entry for
KeyPool == <<k_aa, k_aa1, k_bb>>
StoreKeys == {KeyPool[i] : i \in 1..MaxKeys}

Digits == {"0", "1", "2", "3", "4", "5", "6", "7", "8", "9"}

\* re.match(r"(.+)-\d+$", key): group 1, None when the key does not match
UnversionedKey(key) ==
    LET dashes == {i \in DOMAIN key : key[i] = "-"}
        p == CHOOSE i \in dashes : \A j \in dashes : j <= i
    IN  IF /\ dashes # {}
           /\ p > 1 /\ p < Len(key)
           /\ \A j \in (p + 1)..Len(key) : key[j] \in Digits
        THEN Some(SubSeq(key, 1, p - 1))
        ELSE None

\* a stored candidate: the values of a data file keep their line break
Candidate(linkText, biblioFormat, aliasOf, obsoletedBy, order) ==
    [linkText |-> linkText \o <<"LF">>, biblioFormat |-> biblioFormat,
     aliasOf |-> aliasOf \o <<"LF">>, obsoletedBy |-> obsoletedBy \o <<"LF">>,
     order |-> order]

\* what the corpus says about one key
Absent == [fmt |-> "absent", to |-> <<>>]
Plain == [fmt |-> "dict", to |-> <<>>]
AliasOf(k) == [fmt |-> "alias", to |-> k]
ObsoletedBy(k) == [fmt |-> "obsolete", to |-> k]

\* a key of the corpus may be an alias of a key of the corpus, and may be
\* obsoleted by one, by the hardcoded rfc2119 or by a key no corpus holds
CorpusChoices ==
    {Absent, Plain} \cup {AliasOf(k) : k \in StoreKeys}
                    \cup {ObsoletedBy(k) : k \in StoreKeys \cup {k_rfc2119, k_zz}}

\* the bundled corpora: every assignment of a choice to each key
BiblioStores == [StoreKeys -> CorpusChoices]

\* the candidate a data file holds for key k under choice c
CorpusCandidate(k, c) ==
    Candidate(k, IF c.fmt = "alias" THEN "alias" ELSE "dict",
              IF c.fmt = "alias" THEN c.to ELSE <<>>,
              IF c.fmt = "obsolete" THEN c.to ELSE <<>>, 4)

\* key[0:2]
Group(key) == SubSeq(key, 1, IF Len(key) < 2 THEN Len(key) ELSE 2)

\* the lines the group file of the bundled corpus store holds for group
GroupLines(store, group) ==
    LET ks == SelectSeqBy(KeyPool, {k \in StoreKeys :
                                       store[k].fmt # "absent" /\ Group(k) = group})
    IN  [i \in DOMAIN ks |-> [key |-> ks[i], candidate |-> CorpusCandidate(ks[i], store[ks[i]])]]

\* the path segments of a group file: "biblio", f"biblio-{group}.data"
GroupSegs(group) == <<"biblio", <<"biblio-", group, ".data">>>>

\* the files of the bundled corpus store: one read-only file per group that
\* has entries
BiblioDisk(store) ==
    LET groups == {Group(k) : k \in {x \in StoreKeys : store[x].fmt # "absent"}}
        at == [g \in groups |-> buildPath(GroupSegs(g), "readonly")]
    IN  [l \in {at[g] : g \in groups} |->
            GroupLines(store, CHOOSE g \in groups : at[g] = l)]

\* line 733: with self.dataFile.fetch("biblio", f"biblio-{group}.data",
\* okayToFail=True) as lines
DataFile(files, group) ==
    fetch(defaultRequester, files, GroupSegs(group), FALSE, TRUE, None).value.data

\* biblio-keys.json
BiblioKeysJson(store) == {k \in StoreKeys : store[k].fmt # "absent"}

\* biblio-numeric-suffixes.json: for each unsuffixed key, the keys of the
\* corpus that add a numeric suffix to it
NumericSuffixesJson(store) ==
    LET suffixed == {k \in BiblioKeysJson(store) : UnversionedKey(k) # None}
        bases == {UnversionedKey(k)[1] : k \in suffixed}
    IN  [b \in bases |-> SelectSeqBy(KeyPool, {k \in suffixed : UnversionedKey(k) = Some(b)})]

\* storage[key].append(candidate) on a defaultdict(list)
AppendBiblio(storage, key, candidate) ==
    IF key \in DOMAIN storage
    THEN [storage EXCEPT ![key] = Append(@, candidate)]
    ELSE (key :> <<candidate>>) @@ storage

RECURSIVE loadBiblioDataFile(_, _)
\* biblio.loadBiblioDataFile(lines, storage)
loadBiblioDataFile(lines, storage) ==
    IF lines = <<>> THEN storage
    ELSE loadBiblioDataFile(Tail(lines),
                            AppendBiblio(storage, Head(lines).key, Head(lines).candidate))

\* str.rstrip("\n") of one value
StripLF(s) == IF s # <<>> /\ s[Len(s)] = "LF" THEN SubSeq(s, 1, Len(s) - 1) ELSE s

\* utils.stripLineBreaks
stripLineBreaks(candidate) ==
    [candidate EXCEPT !.linkText = StripLF(@), !.aliasOf = StripLF(@),
                      !.obsoletedBy = StripLF(@)]

\* the candidate stored last
bestCandidateBiblioNewest(candidates) == stripLineBreaks(candidates[Len(candidates)])

\* sorted(candidates, key=itemgetter("order"))[0]: the sort is stable
bestCandidateBiblio(candidates) ==
    stripLineBreaks(candidates[CHOOSE i \in DOMAIN candidates :
        /\ \A j \in DOMAIN candidates : candidates[i].order <= candidates[j].order
        /\ \A j \in 1..(i - 1) : candidates[j].order # candidates[i].order])

\* biblio.BiblioEntry(preferredURL=status, **candidate)
BiblioEntry(preferredURL, candidate) ==
    [class |-> "BiblioEntry", linkText |-> candidate.linkText, originalLinkText |-> None,
     preferredURL |-> preferredURL, order |-> candidate.order,
     obsoletedBy |-> candidate.obsoletedBy]

\* biblio.StringBiblioEntry(**candidate)
StringBiblioEntry(candidate) ==
    [class |-> "StringBiblioEntry", linkText |-> candidate.linkText,
     originalLinkText |-> None, preferredURL |-> None, order |-> candidate.order,
     obsoletedBy |-> <<>>]

\* biblio.SpecBasedBiblioEntry(spec, preferredURL=status)
SpecBasedBiblioEntry(specData, preferredURL) ==
    [class |-> "SpecBasedBiblioEntry", linkText |-> specData.vshortname,
     originalLinkText |-> None, preferredURL |-> preferredURL, obsoletedBy |-> <<>>]
\* the part of the manager a biblio lookup reads and writes
BiblioState ==
    [biblios |-> biblios, loaded |-> loadedBiblioGroups, fetched |-> fetched,
     missed |-> missed]

\* the group is fetched again although it has been loaded before
LoadGroupAgain(st, key) ==
    IF key \in DOMAIN st.biblios THEN st
    ELSE [biblios |-> loadBiblioDataFile(DataFile(disk, Group(key)), st.biblios),
          loaded |-> st.loaded \cup {Group(key)},
          fetched |-> st.fetched (+) SetToBag({Group(key)}),
          missed |-> st.missed (+) SetToBag({Group(key)})]

\* lines 729-735: the group of a key not held yet is fetched unless it has
\* been loaded before
LoadGroup(st, key) ==
    IF key \in DOMAIN st.biblios THEN st
    ELSE [biblios |-> IF Group(key) \notin st.loaded
                      THEN loadBiblioDataFile(DataFile(disk, Group(key)), st.biblios)
                      ELSE st.biblios,
          loaded |-> st.loaded \cup {Group(key)},
          fetched |-> IF Group(key) \notin st.loaded
                      THEN st.fetched (+) SetToBag({Group(key)})
                      ELSE st.fetched,
          missed |-> st.missed (+) SetToBag({Group(key)})]

\* line 736: self.biblios.get(key, [])
Held(st1, key) ==
    [candidates |-> IF key \in DOMAIN st1.biblios THEN st1.biblios[key] ELSE <<>>,
     st |-> st1]

\* ReferenceManager.bibliosFromKey (lines 724-736)
bibliosFromKey(st, key) == Held(LoadGroup(st, key), key)

\* a depth test that cuts the recursion one level later
DepthExceededLate(depth) == depth > MaxBiblioDepth + 1

\* line 644
DepthExceeded(depth) == depth > MaxBiblioDepth

\* lines 716-720: a canonical name, when one has been established
UsePreferredName(bib) ==
    IF bib.linkText \in DOMAIN preferredBiblioNames
    THEN [bib EXCEPT !.originalLinkText = Some(bib.linkText),
                     !.linkText = preferredBiblioNames[bib.linkText]]
    ELSE bib

\* a getBiblioRef call that made no recursive call
NoSub == [maxDepth |-> 0, calls |-> 0, deep |-> <<>>, diags |-> <<>>]

\* The outcome of a getBiblioRef call: what it returned (raised: it ended in
\* the AttributeError of reading None.linkText), the messages, the manager's
\* biblio state, and a record of the recursion: the greatest depth entered,
\* the number of calls, and what each call entered beyond MaxBiblioDepth did.
BiblioOutcome(ret, raised, own, st, depth, lookedUp, stBefore, sub) ==
    [ret |-> ret, raised |-> raised, diags |-> sub.diags \o own, st |-> st,
     maxDepth |-> IF sub.maxDepth > depth THEN sub.maxDepth ELSE depth,
     calls |-> 1 + sub.calls,
     deep |-> (IF depth > MaxBiblioDepth
               THEN <<[depth |-> depth, lookedUp |-> lookedUp, loaded |-> st # stBefore,
                       diags |-> own, ret |-> ret, raised |-> raised]>>
               ELSE <<>>) \o sub.deep]

\* a call that returns without calling itself
Leaf(ret, own, st, stBefore, depth, lookedUp) ==
    [kind |-> "leaf", ret |-> ret, own |-> own, st |-> st, before |-> stBefore,
     depth |-> depth, lookedUp |-> lookedUp, quiet |-> TRUE, target |-> <<>>,
     linkText |-> <<>>]

\* a call that has reached its recursive call (line 690 or line 701)
Pending(kind, candidate, st, stBefore, depth, quiet) ==
    [kind |-> kind, ret |-> None, own |-> <<>>, st |-> st, before |-> stBefore,
     depth |-> depth, lookedUp |-> TRUE, quiet |-> quiet,
     target |-> IF kind = "alias" THEN candidate.aliasOf ELSE candidate.obsoletedBy,
     linkText |-> candidate.linkText]

\* an obsoleted entry is followed whether or not obsolete ones are allowed
ChosenFollowing(candidate, st1, st, status, allowObsolete, quiet, depth) ==
    IF candidate.biblioFormat = "string"
    THEN Leaf(Some(UsePreferredName(StringBiblioEntry(candidate))), <<>>, st1, st, depth, TRUE)
    ELSE IF candidate.biblioFormat = "alias"
    THEN Pending("alias", candidate, st1, st, depth, quiet)
    ELSE IF candidate.obsoletedBy # <<>>
    THEN Pending("obsolete", candidate, st1, st, depth, quiet)
    ELSE Leaf(Some(UsePreferredName(BiblioEntry(status, candidate))), <<>>, st1, st, depth,
              TRUE)

\* lines 684-713: the call goes on with the best candidate
Chosen(candidate, st1, st, status, allowObsolete, quiet, depth) ==
    IF candidate.biblioFormat = "string"
    THEN Leaf(Some(UsePreferredName(StringBiblioEntry(candidate))), <<>>, st1, st, depth, TRUE)
    ELSE IF candidate.biblioFormat = "alias"
    THEN Pending("alias", candidate, st1, st, depth, quiet)
    ELSE IF candidate.obsoletedBy # <<>> /\ ~allowObsolete
    THEN Pending("obsolete", candidate, st1, st, depth, quiet)
    ELSE Leaf(Some(UsePreferredName(BiblioEntry(status, candidate))), <<>>, st1, st, depth,
              TRUE)

\* the unversioned key never stands in for a suffixed one
UnversionedStrict(held, u) == [failFromWrongSuffix |-> FALSE, candidates |-> <<>>]

\* the unversioned key stands in whatever suffixes are on record
UnversionedLax(held, u) ==
    IF u = None \/ u[1] \notin DOMAIN held
    THEN [failFromWrongSuffix |-> FALSE, candidates |-> <<>>]
    ELSE [failFromWrongSuffix |-> FALSE, candidates |-> held[u[1]]]

\* lines 659-670: what the unversioned key u of a key that is not held gives:
\* its candidates, or failFromWrongSuffix when other suffixes are on record
Unversioned(held, u) ==
    IF u = None \/ u[1] \notin DOMAIN held
    THEN [failFromWrongSuffix |-> FALSE, candidates |-> <<>>]
    ELSE IF u[1] \in DOMAIN biblioNumericSuffixes
    THEN [failFromWrongSuffix |-> TRUE, candidates |-> <<>>]
    ELSE [failFromWrongSuffix |-> FALSE, candidates |-> held[u[1]]]

\* lines 653-682: the key is not held
NotHeld(v, st1, st, key, status, generateFakeRef, allowObsolete, quiet, depth) ==
    IF v.candidates # <<>>
    THEN Chosen(bestCandidateBiblio(v.candidates), st1, st, status, allowObsolete, quiet,
                depth)
    ELSE IF key \in DOMAIN specs /\ generateFakeRef
    THEN Leaf(Some(SpecBasedBiblioEntry(specs[key], status)), <<>>, st1, st, depth, TRUE)
    ELSE Leaf(None,
              IF v.failFromWrongSuffix /\ ~quiet
              THEN <<Diag("fatal", "biblio-wrong-suffix",
                          biblioNumericSuffixes[UnversionedKey(key)[1]])>>
              ELSE <<>>, st1, st, depth, TRUE)

\* lines 648-684: look being what bibliosFromKey(key) gave
Looked(look, st, key, status, generateFakeRef, allowObsolete, quiet, depth) ==
    IF look.candidates # <<>>
    THEN Chosen(bestCandidateBiblio(look.candidates), look.st, st, status, allowObsolete,
                quiet, depth)
    ELSE NotHeld(Unversioned(look.st.biblios, UnversionedKey(key)), look.st, st, key, status,
                 generateFakeRef, allowObsolete, quiet, depth)

\* ReferenceManager.getBiblioRef (lines 634-722) from its entry to its return
\* or to its recursive call; st is the biblio state the call starts in
Enter(st, text, status, generateFakeRef, allowObsolete, quiet, depth) ==
    IF DepthExceeded(depth)
    THEN Leaf(None, <<Diag("fatal", "biblio-infinite-recursion", text)>>, st, st, depth, FALSE)
    ELSE Looked(bibliosFromKey(st, Lower(text)), st, Lower(text), status, generateFakeRef,
                allowObsolete, quiet, depth)

\* the rest of a call whose recursive call ended with sub: lines 691-695
\* for an alias, lines 707-711 for an obsoleted entry, then lines 716-722
Resume(f, sub) ==
    IF f.kind = "obsolete" /\ sub.ret = None
    THEN BiblioOutcome(None, TRUE, <<>>, sub.st, f.depth, TRUE, f.before, sub)
    ELSE IF sub.ret = None
    THEN BiblioOutcome(None, FALSE, <<Diag("fatal", "biblio-alias-missing", f.target)>>,
                       sub.st, f.depth, TRUE, f.before, sub)
    ELSE BiblioOutcome(Some(UsePreferredName(sub.ret[1])), FALSE,
                       IF f.kind = "obsolete" /\ ~f.quiet
                       THEN <<Diag("fatal", "biblio-obsolete",
                                   [old |-> f.linkText, new |-> sub.ret[1].linkText])>>
                       ELSE <<>>,
                       sub.st, f.depth, TRUE, f.before, sub)

\* the exception of the call below passes through the call
Propagate(f, sub) == BiblioOutcome(None, TRUE, <<>>, sub.st, f.depth, TRUE, f.before, sub)

\* the chain c with the call f entered below its innermost call
Push(c, f) == [c EXCEPT !.frames = Append(@, f), !.last = f]

\* the recursive call the innermost call of the chain c makes, with the
\* arguments of line 692 / lines 701-707
Call(c) ==
    Push(c, Enter(c.last.st, c.last.target, c.status, FALSE, FALSE, TRUE, c.last.depth + 1))

RECURSIVE Calls(_, _)
\* the chain c after at most k more recursive calls
Calls(c, k) == IF k = 0 \/ c.last.kind = "leaf" THEN c ELSE Calls(Call(c), k - 1)

RECURSIVE Descend(_)
\* the calls of one getBiblioRef invocation, outermost first: a call makes
\* at most one recursive call, so they form a chain (followed ten calls at
\* a time, which keeps the evaluation shallow)
Descend(c) == IF c.last.kind = "leaf" THEN c.frames ELSE Descend(Calls(c, 10))

\* the call frames[i] returns, sub being what the call below it returned
Return(u) ==
    [frames |-> u.frames, i |-> u.i - 1,
     sub |-> IF u.sub.raised THEN Propagate(u.frames[u.i], u.sub)
             ELSE Resume(u.frames[u.i], u.sub)]

RECURSIVE Returns(_, _)
\* at most k of the calls frames[1..i] return, innermost first
Returns(u, k) == IF k = 0 \/ u.i = 0 THEN u ELSE Returns(Return(u), k - 1)

RECURSIVE Unwind(_)
\* all the calls frames[1..i] return
Unwind(u) == IF u.i = 0 THEN u.sub ELSE Unwind(Returns(u, 10))

\* the chain of calls that starts with the call first
Start(first, status) == [frames |-> <<first>>, last |-> first, status |-> status]

\* the outcome of the innermost call f of a chain, which called nothing
Bottom(f) ==
    BiblioOutcome(f.ret, FALSE, f.own, f.st, f.depth, f.lookedUp, f.before, NoSub)

\* the calls of the chain frames return, innermost first
Finish(frames) ==
    Unwind([frames |-> frames, i |-> Len(frames) - 1, sub |-> Bottom(frames[Len(frames)])])

\* ReferenceManager.getBiblioRef (lines 634-722)
getBiblioRef(st, text, status, generateFakeRef, allowObsolete, quiet, depth) ==
    Finish(Descend(Start(Enter(st, text, status, generateFakeRef, allowObsolete, quiet,
                               depth),
                         status)))

\* the code point of a digit
DigitCode(t) ==
    47 + (CHOOSE i \in 1..10 : <<"0", "1", "2", "3", "4", "5", "6", "7", "8", "9">>[i] = t)

\* re.search(r"(\d{8})$", k): group 1, None when the key does not match
DateOf(k) ==
    IF Len(k) >= 8 /\ \A i \in (Len(k) - 7)..Len(k) : k[i] \in Digits
    THEN Some(SubSeq(k, Len(k) - 7, Len(k)))
    ELSE None

\* date > latestDate on two date strings
DateGreater(a, b) ==
    StrLess([i \in DOMAIN b |-> DigitCode(b[i])], [i \in DOMAIN a |-> DigitCode(a[i])])

\* the dated keys the loop of lines 750-759 does not skip
DatedKeys(held, key) == {k \in DOMAIN held : StartsWith(k, key) /\ DateOf(k) # None}

\* the key whose candidates the loop ends with: one of greatest date (the
\* first met of them, were several keys to carry the same date)
LatestKey(dated) ==
    CHOOSE k \in dated : \A j \in dated : ~DateGreater(DateOf(j)[1], DateOf(k)[1])

\* lines 746-762: look being what bibliosFromKey(key) gave
Latest(look, key) ==
    [ret |-> IF look.candidates = <<>> \/ DatedKeys(look.st.biblios, key) = {} THEN None
             ELSE Some(BiblioEntry(None, bestCandidateBiblio(
                           look.st.biblios[LatestKey(DatedKeys(look.st.biblios, key))]))),
     st |-> look.st]

\* ReferenceManager.getLatestBiblioRef (lines 741-762)
getLatestBiblioRef(st, key) == Latest(bibliosFromKey(st, key), key)

\* specs.json: spec data by versioned shortname
SpecsJson == (k_zz :> [vshortname |-> k_zz]) @@ (k_aa2 :> [vshortname |-> k_aa2])

\* what the document's biblio.json can add (processSpecrefBiblioFile, order 2)
LocalBiblioPool ==
    { <<>>,
      (k_aa :> <<Candidate(k_aa, "string", <<>>, <<>>, 2)>>),
      (k_aa_2020 :> <<Candidate(k_aa_2020, "dict", <<>>, <<>>, 2)>>)
          @@ (k_aa_2021 :> <<Candidate(k_aa_2021, "dict", <<>>, <<>>, 2)>>),
      (k_aa_2021 :> <<Candidate(k_aa_2021, "dict", <<>>, <<>>, 2)>>)
          @@ (k_aa_2020 :> <<Candidate(k_aa_2020, "dict", <<>>, <<>>, 2)>>)
          @@ (k_aa :> <<Candidate(k_aa, "string", <<>>, <<>>, 2)>>),
      (k_rfc2119 :> <<Candidate(k_rfc2119, "string", <<>>, <<>>, 2)>>)
          @@ (k_aa :> <<Candidate(k_aa, "string", <<>>, <<>>, 2),
                        Candidate(k_aa, "dict", <<>>, <<>>, 2)>>) }

\* the entry initializeBiblio hardcodes (lines 182-198)
Rfc2119 == Candidate(k_rfc2119, "dict", <<>>, <<>>, 3)

\* canonical names the document may establish
PreferredPool == { [key |-> k_aa, name |-> k_AA] }

BiblioRequest(text, status, generateFakeRef, allowObsolete, quiet, depth) ==
    [text |-> text, status |-> status, generateFakeRef |-> generateFakeRef,
     allowObsolete |-> allowObsolete, quiet |-> quiet, depth |-> depth]

BiblioTexts == StoreKeys \cup {k_AA, k_aa1, k_aa2, k_zz, k_rfc2119}

\* the keys bibliosFromKey is called with directly
LookupKeys == {k_aa, k_zz}

\* the names getLatestBiblioRef is called with
LatestKeys == {k_aa, k_aa2, k_zz}

\* the getBiblioRef calls made
BiblioRequests ==
    { BiblioRequest(t, None, FALSE, FALSE, FALSE, 0) : t \in BiblioTexts }
    \cup { BiblioRequest(t, None, FALSE, TRUE, FALSE, 0) : t \in StoreKeys }
    \cup { BiblioRequest(t, None, FALSE, FALSE, TRUE, 0) : t \in StoreKeys \cup {k_aa2} }
    \cup { BiblioRequest(t, None, TRUE, FALSE, FALSE, 0) : t \in {k_zz, k_aa, k_aa2} }
    \cup { BiblioRequest(t, None, FALSE, FALSE, FALSE, d) :
              t \in StoreKeys, d \in {MaxBiblioDepth, MaxBiblioDepth + 1} }
    \cup { BiblioRequest(k_aa, Some("snapshot"), FALSE, FALSE, FALSE, 0) }

\* ------------------------------------------------------------- the steps
RECURSIVE NumRules(_, _)
NumRules(ds, terms) ==
    IF terms = {} THEN 0
    ELSE LET t == CHOOSE x \in terms : TRUE
         IN  Len(ds[t]) + NumRules(ds, terms \ {t})

\* how much the manager holds
Size ==
    Len(localRefs) + Len(anchorBlockRefs) + Len(foreignRefs)
    + NumRules(defaultSpecs, DOMAIN defaultSpecs)
    + Cardinality(ignoredSpecs) + Cardinality(replacedSpecs)

\* the state a ReferenceManager is constructed in (lines 35-92)
Init ==
    /\ testing \in BOOLEAN
    /\ defaultStatus = "current"
    /\ shortname = None
    /\ spec = None
    /\ specLevel = None
    /\ defaultSpecs = <<>>
    /\ ignoredSpecs = {}
    /\ replacedSpecs = {}
    /\ localRefs = <<>>
    /\ anchorBlockRefs = <<>>
    /\ foreignRefs = <<>>
    /\ methods = <<>>
    /\ call = None
    /\ specs = <<>>
    /\ biblios = <<>>
    /\ loadedBiblioGroups = {}
    /\ biblioKeys = {}
    /\ biblioNumericSuffixes = <<>>
    /\ preferredBiblioNames = <<>>
    /\ fetched = EmptyBag
    /\ missed = EmptyBag
    /\ bcall = None
    /\ corpus = [k \in StoreKeys |-> Absent]
    /\ disk = <<>>
    /\ fcall = None

\* the document is assembled after initializeRefs has read the corpus indexes
Initialized == methods # <<>>

\* initializeRefs: specs.json and methods.json are read (lines 100-108)
InitializeRefs ==
    /\ call = None
    /\ bcall = None
    /\ specs' = SpecsJson @@ specs
    /\ methods' = MethodsJson @@ methods
    /\ UNCHANGED <<bibRest, fileVars>>
    /\ UNCHANGED <<testing, defaultStatus, shortname, spec, specLevel, defaultSpecs,
                   ignoredSpecs, replacedSpecs, localRefs, anchorBlockRefs, foreignRefs,
                   call>>

\* the corpus supplies one more foreign entry (RefSource.fetchRefs)
LoadForeignRef(e) ==
    /\ call = None
    /\ Initialized
    /\ Size < MaxSize
    /\ \A i \in DOMAIN foreignRefs : foreignRefs[i].url # e.url
    /\ foreignRefs' = Append(foreignRefs, e)
    /\ UNCHANGED <<testing, defaultStatus, shortname, spec, specLevel, defaultSpecs,
                   ignoredSpecs, replacedSpecs, localRefs, anchorBlockRefs, methods, call>>
    /\ UNCHANGED <<bibVars, fileVars>>

\* an anchors block supplies one more entry (datablocks.transformAnchors)
AddAnchorBlockRef(e) ==
    /\ call = None
    /\ Initialized
    /\ Size < MaxSize
    /\ \A i \in DOMAIN anchorBlockRefs : anchorBlockRefs[i].url # e.url
    /\ anchorBlockRefs' = Append(anchorBlockRefs, e)
    /\ UNCHANGED <<testing, defaultStatus, shortname, spec, specLevel, defaultSpecs,
                   ignoredSpecs, replacedSpecs, localRefs, foreignRefs, methods, call>>
    /\ UNCHANGED <<bibVars, fileVars>>

\* the document names a spec to ignore
IgnoreSpec(s) ==
    /\ call = None
    /\ Initialized
    /\ Size < MaxSize
    /\ s \notin ignoredSpecs
    /\ ignoredSpecs' = ignoredSpecs \cup {s}
    /\ UNCHANGED <<testing, defaultStatus, shortname, spec, specLevel, defaultSpecs,
                   replacedSpecs, localRefs, anchorBlockRefs, foreignRefs, methods, call>>
    /\ UNCHANGED <<bibVars, fileVars>>

\* str.rstrip() on a spec name
rstrip(s) ==
    CASE s = "s1 " -> "s1"
      [] s = "s2 " -> "s2"
      [] OTHER -> s

\* the entries of the document's shortname flagged whatever their status
removeSameSpecRefsAll(refs, sn) ==
    [i \in DOMAIN refs |->
        IF Some(rstrip(refs[i].shortname[1])) = sn
        THEN [refs[i] EXCEPT !.export = FALSE]
        ELSE refs[i]]

\* removeSameSpecRefs, with sn the shortname just set
removeSameSpecRefs(refs, sn) ==
    [i \in DOMAIN refs |->
        IF refs[i].status # "local" /\ Some(rstrip(refs[i].shortname[1])) = sn
        THEN [refs[i] EXCEPT !.export = FALSE]
        ELSE refs[i]]

RECURSIVE AppendDefaults(_, _)
\* lines 211-213
AppendDefaults(ds, linkDefaults) ==
    IF linkDefaults = <<>> THEN ds
    ELSE LET term == Head(linkDefaults).term
             old == IF term \in DOMAIN ds THEN ds[term] ELSE <<>>
         IN  AppendDefaults((term :> (old \o Head(linkDefaults).defaults)) @@ ds,
                            Tail(linkDefaults))

NumDefaults(linkDefaults) ==
    IF linkDefaults = <<>> THEN 0 ELSE Len(linkDefaults[1].defaults)

\* setSpecData(md)
SetSpecData(md) ==
    /\ call = None
    /\ Initialized
    /\ Size + NumDefaults(md.linkDefaults) <= MaxSize
    /\ defaultStatus' = IF md.defaultRefStatus # None THEN md.defaultRefStatus[1]
                        ELSE IF md.status \in snapshotStatuses THEN "snapshot"
                        ELSE IF md.status \in shortToLongStatus THEN "current"
                        ELSE defaultStatus
    /\ shortname' = Some(md.shortname)
    /\ specLevel' = Some(md.level)
    /\ spec' = Some(md.vshortname)
    /\ defaultSpecs' = AppendDefaults(defaultSpecs, md.linkDefaults)
    /\ foreignRefs' = removeSameSpecRefs(foreignRefs, Some(md.shortname))
    /\ UNCHANGED <<testing, ignoredSpecs, replacedSpecs, localRefs, anchorBlockRefs,
                   methods, call>>
    /\ UNCHANGED <<bibVars, fileVars>>

\* re.sub(r"\s+", " ", linkText)
RECURSIVE CollapseSpaces(_)
CollapseSpaces(t) ==
    IF Len(t) < 2 THEN t
    ELSE IF t[1] = " " /\ t[2] = " " THEN CollapseSpaces(Tail(t))
    ELSE <<t[1]>> \o CollapseSpaces(Tail(t))

\* the for values of the model in Python's string order ("@" < "A" < "I" < "d")
ForValuesInOrder == << <<"@", "r", "/", "d">>, forA, forI, <<"d">> >>

\* sorted(dfnFor)
SortedFors(S) == SelectSeqBy(ForValuesInOrder, S)

\* lines 277-282: "@foo/bar" is also for the bare "bar"
WithBareDescriptors(S) ==
    S \cup {SubSeq(t, 4, Len(t)) : t \in {x \in S : Len(x) >= 3 /\ x[1] = "@" /\ x[3] = "/"}}

\* the body of the loop of addLocalDfns for one linking text of element el
AddLinkText(refs, el, linkText0) ==
    LET linkText1 == CollapseSpaces(unfixTypography(linkText0))
        linkType == el.type
        linkText == IF linkType \in lowercaseTypes THEN Lower(linkText1) ELSE linkText1
        existing(f) == queryRefs(refs, {}, {},
                                 [QueryArgs EXCEPT !.linkType = Some(linkType),
                                                   !.text = Some(linkText),
                                                   !.linkFor = f]).refs
        clash(f) == existing(f) # <<>> /\ existing(f)[1].el # el.id
        dfnFor == IF el.dfnFor = None THEN {} ELSE Range(el.dfnFor[1])
        ref == [text |-> linkText, type |-> linkType,
                for_ |-> SortedFors(WithBareDescriptors(dfnFor)),
                spec |-> spec, shortname |-> shortname, level |-> specLevel,
                status |-> "local", url |-> <<35>> \o el.id, export |-> TRUE,
                el |-> el.id]
    IN  IF linkType \notin dfnTypes
        THEN [refs |-> refs, diags |-> <<Diag("fatal", "unknown-dfn-type", linkType)>>]
        ELSE IF el.dfnFor = None /\ clash(ForLess)
        THEN [refs |-> refs, diags |-> <<Diag("fatal", "duplicate-dfn", linkText)>>]
        ELSE IF el.dfnFor # None /\ \E f \in dfnFor : clash(StrFor(f))
        THEN [refs |-> refs, diags |-> <<Diag("fatal", "duplicate-dfn-for", linkText)>>]
        ELSE [refs |-> Append(refs, ref), diags |-> <<>>]

RECURSIVE AddLinkTexts(_, _, _)
AddLinkTexts(refs, el, linkTexts) ==
    IF linkTexts = <<>> THEN [refs |-> refs, diags |-> <<>>]
    ELSE LET one == AddLinkText(refs, el, Head(linkTexts))
             rest == AddLinkTexts(one.refs, el, Tail(linkTexts))
         IN  [refs |-> rest.refs, diags |-> one.diags \o rest.diags]

\* addLocalDfns([el]), for an element not collected before
AddLocalDfns(el) ==
    /\ call = None
    /\ Initialized
    /\ Size < MaxSize
    /\ \A i \in DOMAIN localRefs : localRefs[i].el # el.id
    /\ localRefs' = IF el.noRef THEN localRefs
                    ELSE AddLinkTexts(localRefs, el, el.linkTexts).refs
    /\ UNCHANGED <<testing, defaultStatus, shortname, spec, specLevel, defaultSpecs,
                   ignoredSpecs, replacedSpecs, anchorBlockRefs, foreignRefs, methods,
                   call>>
    /\ UNCHANGED <<bibVars, fileVars>>

\* how many local entries random.choice may have to choose among
NumChoices(r) ==
    IF testing THEN 1
    ELSE LET text == IF r.linkType \in lowercaseTypes
                     THEN Lower(unfixTypography(r.text)) ELSE unfixTypography(r.text)
             n == Len(Q(localRefs, [QueryArgs EXCEPT !.linkType = Some(r.linkType),
                                                     !.text = Some(text),
                                                     !.linkFor = r.linkFor]).refs)
         IN  IF n > 1 THEN n ELSE 1

\* one getRef call, start to return
GetRef(r) ==
    /\ call = None
    /\ \E pick \in 1..NumChoices(r) :
          call' = Some([req |-> r,
                        out |-> getRef(r.linkType, r.text, r.spec, r.status, r.linkFor,
                                       r.error, pick)])
    /\ UNCHANGED <<testing, defaultStatus, shortname, spec, specLevel, defaultSpecs,
                   ignoredSpecs, replacedSpecs, localRefs, anchorBlockRefs, foreignRefs,
                   methods>>
    /\ UNCHANGED <<bibVars, fileVars>>

\* the caller has taken the result of the call
TakeResult ==
    /\ call # None
    /\ call' = None
    /\ UNCHANGED <<testing, defaultStatus, shortname, spec, specLevel, defaultSpecs,
                   ignoredSpecs, replacedSpecs, localRefs, anchorBlockRefs, foreignRefs,
                   methods>>
    /\ UNCHANGED <<bibVars, fileVars>>

Next ==
    \/ InitializeRefs
    \/ \E md \in MetadataPool : SetSpecData(md)
    \/ \E el \in DfnPool : AddLocalDfns(el)
    \/ \E e \in AnchorPool : AddAnchorBlockRef(e)
    \/ \E e \in ForeignPool : LoadForeignRef(e)
    \/ \E s \in IgnorablePool : IgnoreSpec(s)
    \/ \E r \in Requests : GetRef(r)
    \/ TakeResult

Spec == Init /\ [][Next]_vars

\* ------------------------------------------------ the biblio resolver's steps
\* a manager constructed over one of the bundled corpora
InitBiblio ==
    /\ testing = FALSE
    /\ defaultStatus = "current"
    /\ shortname = None
    /\ spec = None
    /\ specLevel = None
    /\ defaultSpecs = <<>>
    /\ ignoredSpecs = {}
    /\ replacedSpecs = {}
    /\ localRefs = <<>>
    /\ anchorBlockRefs = <<>>
    /\ foreignRefs = <<>>
    /\ methods = <<>>
    /\ call = None
    /\ specs = <<>>
    /\ biblios = <<>>
    /\ loadedBiblioGroups = {}
    /\ biblioKeys = {}
    /\ biblioNumericSuffixes = <<>>
    /\ preferredBiblioNames = <<>>
    /\ fetched = EmptyBag
    /\ missed = EmptyBag
    /\ bcall = None
    /\ corpus \in BiblioStores
    /\ disk = BiblioDisk(corpus)
    /\ fcall = None

BiblioInitialized == k_rfc2119 \in DOMAIN biblios

RECURSIVE ExtendBiblios(_, _, _)
\* for k, vs in storage.items(): self.biblios[k].extend(vs)
ExtendBiblios(target, storage, keys) ==
    IF keys = {} THEN target
    ELSE LET k == CHOOSE x \in keys : TRUE
             vs == storage[k]
             merged == IF k \in DOMAIN target THEN [target EXCEPT ![k] = @ \o vs]
                       ELSE (k :> vs) @@ target
         IN  ExtendBiblios(merged, storage, keys \ {k})

\* initializeBiblio (lines 164-198), storage being what biblio.json holds
InitializeBiblio(storage) ==
    /\ call = None /\ bcall = None
    /\ Initialized
    /\ ~BiblioInitialized
    /\ biblioKeys' = biblioKeys \cup BiblioKeysJson(corpus) \cup DOMAIN storage
                                \cup {k_rfc2119}
    /\ biblioNumericSuffixes' = NumericSuffixesJson(corpus) @@ biblioNumericSuffixes
    /\ biblios' = AppendBiblio(ExtendBiblios(biblios, storage, DOMAIN storage),
                               k_rfc2119, Rfc2119)
    /\ UNCHANGED <<refVars, fileVars, specs, loadedBiblioGroups, preferredBiblioNames,
                   corpus, fetched, missed, bcall>>

\* the document establishes a canonical name for a key
PreferBiblioName(p) ==
    /\ bcall = None
    /\ BiblioInitialized
    /\ p.key \notin DOMAIN preferredBiblioNames
    /\ preferredBiblioNames' = (p.key :> p.name) @@ preferredBiblioNames
    /\ UNCHANGED <<refVars, fileVars, specs, biblios, loadedBiblioGroups, biblioKeys,
                   biblioNumericSuffixes, corpus, fetched, missed, bcall>>

\* the outcome of a call as the caller sees it
Visible(out) ==
    [ret |-> out.ret, raised |-> out.raised, diags |-> out.diags,
     maxDepth |-> out.maxDepth, calls |-> out.calls, deep |-> out.deep]

\* the biblio state a call leaves, within the bound on lookups
Left(st) ==
    /\ \A g \in BagToSet(st.missed) : CopiesIn(g, st.missed) <= MaxMisses
    /\ biblios' = st.biblios
    /\ loadedBiblioGroups' = st.loaded
    /\ fetched' = st.fetched
    /\ missed' = st.missed

\* the manager after a getBiblioRef call with arguments r that ended with out
BiblioReturned(r, out) ==
    /\ Left(out.st)
    /\ bcall' = Some([op |-> "getBiblioRef", req |-> r, out |-> Visible(out)])

\* one getBiblioRef call
GetBiblioRef(r) ==
    /\ bcall = None
    /\ BiblioInitialized
    /\ BiblioReturned(r, getBiblioRef(BiblioState, r.text, r.status, r.generateFakeRef,
                                      r.allowObsolete, r.quiet, r.depth))
    /\ UNCHANGED <<refVars, fileVars, specs, biblioKeys, biblioNumericSuffixes,
                   preferredBiblioNames, corpus>>

\* the manager after a bibliosFromKey(key) call that ended with look
BibliosLooked(key, look) ==
    /\ Left(look.st)
    /\ bcall' = Some([op |-> "bibliosFromKey", req |-> key, out |-> look.candidates])

\* one bibliosFromKey call
BibliosFromKey(key) ==
    /\ bcall = None
    /\ BiblioInitialized
    /\ BibliosLooked(key, bibliosFromKey(BiblioState, key))
    /\ UNCHANGED <<refVars, fileVars, specs, biblioKeys, biblioNumericSuffixes,
                   preferredBiblioNames, corpus>>

\* the manager after a getLatestBiblioRef(key) call that ended with latest
LatestReturned(key, latest) ==
    /\ Left(latest.st)
    /\ bcall' = Some([op |-> "getLatestBiblioRef", req |-> key, out |-> latest.ret])

\* one getLatestBiblioRef call
GetLatestBiblioRef(key) ==
    /\ bcall = None
    /\ BiblioInitialized
    /\ LatestReturned(key, getLatestBiblioRef(BiblioState, key))
    /\ UNCHANGED <<refVars, fileVars, specs, biblioKeys, biblioNumericSuffixes,
                   preferredBiblioNames, corpus>>

\* the caller has taken the result of the biblio call
TakeBiblioResult ==
    /\ bcall # None
    /\ bcall' = None
    /\ UNCHANGED <<refVars, fileVars, specs, biblios, loadedBiblioGroups, biblioKeys,
                   biblioNumericSuffixes, preferredBiblioNames, corpus, fetched, missed>>

NextBiblio ==
    \/ InitializeRefs
    \/ \E storage \in LocalBiblioPool : InitializeBiblio(storage)
    \/ \E p \in PreferredPool : PreferBiblioName(p)
    \/ \E r \in BiblioRequests : GetBiblioRef(r)
    \/ \E key \in LookupKeys : BibliosFromKey(key)
    \/ \E key \in LatestKeys : GetLatestBiblioRef(key)
    \/ TakeBiblioResult

SpecBiblio == InitBiblio /\ [][NextBiblio]_vars

\* ------------------------------------------------ the requester's steps
\* the path segments fetch is called with
FetchSegs == { <<"a">>, <<"readonly", "a">> }

\* the requesters in use: the default one, its fallback alone, a requester
\* without fallback, and one whose fallback has a fallback
Requesters ==
    { defaultRequester,
      Requester("readonly", None),
      Requester("latest", None),
      Requester("readonly", Some(Requester("latest", None))),
      Requester("latest", Some(defaultRequester)) }

\* the places a file may be in, and what it may hold
FileLocations == { buildPath(segs, t) : segs \in FetchSegs, t \in {"latest", "readonly"} }
FileContents == { <<>>, <<"x">>, <<"y">> }

FetchRequest(self, segs, str, okayToFail, type) ==
    [self |-> self, segs |-> segs, str |-> str, okayToFail |-> okayToFail, type |-> type]

FetchRequests ==
    { FetchRequest(self, segs, str, okayToFail, type) :
         self \in Requesters, segs \in FetchSegs, str \in BOOLEAN, okayToFail \in BOOLEAN,
         type \in {None, Some("readonly"), Some("latest")} }

\* no file yet, no document
InitFetch ==
    /\ testing = FALSE
    /\ defaultStatus = "current"
    /\ shortname = None
    /\ spec = None
    /\ specLevel = None
    /\ defaultSpecs = <<>>
    /\ ignoredSpecs = {}
    /\ replacedSpecs = {}
    /\ localRefs = <<>>
    /\ anchorBlockRefs = <<>>
    /\ foreignRefs = <<>>
    /\ methods = <<>>
    /\ call = None
    /\ specs = <<>>
    /\ biblios = <<>>
    /\ loadedBiblioGroups = {}
    /\ biblioKeys = {}
    /\ biblioNumericSuffixes = <<>>
    /\ preferredBiblioNames = <<>>
    /\ fetched = EmptyBag
    /\ missed = EmptyBag
    /\ bcall = None
    /\ corpus = [k \in StoreKeys |-> Absent]
    /\ disk = <<>>
    /\ fcall = None

\* a data file is installed or rewritten (an update of spec-data)
WriteFile(location, content) ==
    /\ fcall = None
    /\ ~(location \in DOMAIN disk /\ disk[location] = content)
    /\ disk' = [l \in DOMAIN disk \cup {location} |->
                    IF l = location THEN content ELSE disk[l]]
    /\ UNCHANGED <<refVars, bibVars, fcall>>

\* a data file is removed
RemoveFile(location) ==
    /\ fcall = None
    /\ location \in DOMAIN disk
    /\ disk' = [l \in DOMAIN disk \ {location} |-> disk[l]]
    /\ UNCHANGED <<refVars, bibVars, fcall>>

\* one DataFileRequester.fetch call
Fetch(r) ==
    /\ fcall = None
    /\ fcall' = Some([req |-> r,
                      out |-> fetch(r.self, disk, r.segs, r.str, r.okayToFail, r.type)])
    /\ UNCHANGED <<refVars, bibVars, disk>>

\* the caller has taken what fetch gave
TakeFetchResult ==
    /\ fcall # None
    /\ fcall' = None
    /\ UNCHANGED <<refVars, bibVars, disk>>

NextFetch ==
    \/ \E location \in FileLocations, content \in FileContents : WriteFile(location, content)
    \/ \E location \in FileLocations : RemoveFile(location)
    \/ \E r \in FetchRequests : Fetch(r)
    \/ TakeFetchResult

SpecFetch == InitFetch /\ [][NextFetch]_vars

\* ------------------------------------------------ the query steps
\* entries of one term in a replaced specification (two current, one
\* snapshot) and in its replacement, which is not exported
QueryPool ==
    << Ref(foo, "property", <<forA>>, "s1-1", "s1", "current", Url(102, 5), TRUE),
       Ref(foo, "property", <<forI>>, "s1-1", "s1", "current", Url(102, 6), TRUE),
       Ref(foo, "property", <<>>, "s1-1", "s1", "snapshot", Url(102, 7), TRUE),
       Ref(foo, "property", <<forA>>, "s2-1", "s2", "current", Url(102, 8), FALSE) >>

\* what the document's own tiers may hold for the term
LocalQueryPool == << Ref(foo, "property", <<>>, "s3-1", "s3", "local", Url(97, 1), TRUE) >>
AnchorQueryPool == << Ref(foo, "property", <<forA>>, "s2-1", "s2", "current", Url(98, 4), TRUE) >>

\* the tiers drawn from a pool: its entries in order, some left out
Tiers(pool) == { SelectSeqBy(pool, keep) : keep \in SUBSET Range(pool) }

\* the queryAllRefs calls made: always by text, with or without each filter
QueryRequests ==
    { [QueryArgs EXCEPT !.text = Some(foo), !.spec = sp, !.status = st, !.statusHint = sh,
                        !.linkFor = lf, !.linkForHint = lh, !.explicitFor = ef,
                        !.export = ex, !.ignoreObsoletes = io] :
        sp \in {None, Some("s1")},
        st \in {None, Some("current")},
        sh \in {None, Some("snapshot")},
        lf \in {NoFor, ListFor(<<forA, forI>>)},
        lh \in {NoFor, ListFor(<<forI>>)},
        ef \in BOOLEAN,
        ex \in {None, Some(TRUE)},
        io \in BOOLEAN }

\* a document whose tiers are filled and whose ignored and replaced sets
\* are set, before any query
InitQuery ==
    /\ testing = FALSE
    /\ defaultStatus = "current"
    /\ shortname = None
    /\ spec = None
    /\ specLevel = None
    /\ defaultSpecs = <<>>
    /\ ignoredSpecs \in {{}, {"s1-1"}}
    /\ replacedSpecs \in {{}, {<<"s1-1", "s2-1">>}}
    /\ localRefs \in Tiers(LocalQueryPool)
    /\ anchorBlockRefs \in Tiers(AnchorQueryPool)
    /\ foreignRefs \in Tiers(QueryPool)
    /\ methods = <<>>
    /\ call = None
    /\ specs = <<>>
    /\ biblios = <<>>
    /\ loadedBiblioGroups = {}
    /\ biblioKeys = {}
    /\ biblioNumericSuffixes = <<>>
    /\ preferredBiblioNames = <<>>
    /\ fetched = EmptyBag
    /\ missed = EmptyBag
    /\ bcall = None
    /\ corpus = [k \in StoreKeys |-> Absent]
    /\ disk = <<>>
    /\ fcall = None

\* one queryAllRefs call
QueryAllRefs(q) ==
    /\ call = None
    /\ call' = Some([op |-> "queryAllRefs", req |-> q, out |-> queryAllRefs(q)])
    /\ UNCHANGED <<testing, defaultStatus, shortname, spec, specLevel, defaultSpecs,
                   ignoredSpecs, replacedSpecs, localRefs, anchorBlockRefs, foreignRefs,
                   methods>>
    /\ UNCHANGED <<bibVars, fileVars>>

NextQuery ==
    \/ \E q \in QueryRequests : QueryAllRefs(q)
    \/ TakeResult

SpecQuery == InitQuery /\ [][NextQuery]_vars

\* ------------------------------------------------ the report steps
\* candidates of an ambiguous link: two entries of one specification with
\* the same for, two for-less ones, one with two fors in another
\* specification, and one of another kind
ReportPool ==
    << Ref(foo, "property", <<forA>>, "s1-1", "s1", "current", Url(102, 5), TRUE),
       Ref(foo, "property", <<forA>>, "s1-1", "s1", "current", Url(102, 6), TRUE),
       Ref(foo, "property", <<>>, "s1-1", "s1", "current", Url(102, 7), TRUE),
       Ref(foo, "property", <<forA, forI>>, "s2-1", "s2", "current", Url(102, 8), TRUE),
       Ref(foo, "descriptor", <<>>, "s2-1", "s2", "current", Url(102, 9), TRUE),
       Ref(foo, "property", <<>>, "s1-1", "s1", "current", Url(103, 0), TRUE) >>

\* a document whose foreign tier holds the candidates, before any report
InitReport ==
    /\ testing = FALSE
    /\ defaultStatus = "current"
    /\ shortname = None
    /\ spec = None
    /\ specLevel = None
    /\ defaultSpecs = <<>>
    /\ ignoredSpecs = {}
    /\ replacedSpecs = {}
    /\ localRefs = <<>>
    /\ anchorBlockRefs = <<>>
    /\ foreignRefs \in Tiers(ReportPool)
    /\ methods = <<>>
    /\ call = None
    /\ specs = <<>>
    /\ biblios = <<>>
    /\ loadedBiblioGroups = {}
    /\ biblioKeys = {}
    /\ biblioNumericSuffixes = <<>>
    /\ preferredBiblioNames = <<>>
    /\ fetched = EmptyBag
    /\ missed = EmptyBag
    /\ bcall = None
    /\ corpus = [k \in StoreKeys |-> Absent]
    /\ disk = <<>>
    /\ fcall = None

\* one simplifyPossibleRefs call on the candidates
SimplifyPossibleRefs(alwaysShowFor) ==
    /\ call = None
    /\ call' = Some([op |-> "simplifyPossibleRefs",
                     req |-> [refs |-> foreignRefs, alwaysShowFor |-> alwaysShowFor],
                     out |-> simplifyPossibleRefs(foreignRefs, alwaysShowFor)])
    /\ UNCHANGED <<testing, defaultStatus, shortname, spec, specLevel, defaultSpecs,
                   ignoredSpecs, replacedSpecs, localRefs, anchorBlockRefs, foreignRefs,
                   methods>>
    /\ UNCHANGED <<bibVars, fileVars>>

\* the report getRef makes of several candidates (lines 623-631)
ReportMultiplePossibleRefs ==
    /\ call = None
    /\ Len(foreignRefs) >= 2
    /\ call' = Some([op |-> "reportMultiplePossibleRefs",
                     req |-> [refs |-> foreignRefs, alwaysShowFor |-> FALSE],
                     out |-> reportMultiplePossibleRefs(
                                 simplifyPossibleRefs(foreignRefs, FALSE), NoFor,
                                 foreignRefs[1])])
    /\ UNCHANGED <<testing, defaultStatus, shortname, spec, specLevel, defaultSpecs,
                   ignoredSpecs, replacedSpecs, localRefs, anchorBlockRefs, foreignRefs,
                   methods>>
    /\ UNCHANGED <<bibVars, fileVars>>

NextReport ==
    \/ \E alwaysShowFor \in BOOLEAN : SimplifyPossibleRefs(alwaysShowFor)
    \/ ReportMultiplePossibleRefs
    \/ TakeResult

SpecReport == InitReport /\ [][NextReport]_vars

\* ------------------------------------------------ the document's steps
\* foreign entries of the document's own specification (one of them of
\* status local, one not exported) and of another one
FramePool ==
    << Ref(foo, "property", <<>>, "s2-1", "s2", "current", Url(102, 5), TRUE),
       Ref(foo, "property", <<forA>>, "s2-1", "s2", "local", Url(102, 6), TRUE),
       Ref(foo, "property", <<>>, "s1-1", "s1", "current", Url(102, 7), TRUE),
       Ref(foo, "descriptor", <<>>, "s2-1", "s2", "snapshot", Url(102, 8), FALSE) >>

\* the getRef and getBiblioRef calls of the document
FrameRequests ==
    { Request(lt, foo, sp, st, NoFor, TRUE) :
        lt \in {"property", "propdesc"},
        sp \in {None, Some("S2")},
        st \in {None, Some("local")} }

FrameBiblioRequests ==
    { BiblioRequest(t, None, FALSE, FALSE, FALSE, 0) : t \in {k_aa, k_rfc2119, k_zz} }

\* the data files are read and the tiers are filled; the document's
\* metadata is not yet known and no link is resolved yet
InitFrame ==
    /\ testing = TRUE
    /\ defaultStatus = "current"
    /\ shortname = None
    /\ spec = None
    /\ specLevel = None
    /\ defaultSpecs = <<>>
    /\ ignoredSpecs = {}
    /\ replacedSpecs = {}
    /\ localRefs \in Tiers(LocalQueryPool)
    /\ anchorBlockRefs \in Tiers(AnchorQueryPool)
    /\ foreignRefs \in Tiers(FramePool)
    /\ Len(localRefs) + Len(anchorBlockRefs) + Len(foreignRefs) <= MaxSize
    /\ methods = MethodsJson
    /\ call = None
    /\ specs = SpecsJson
    /\ biblios = <<>>
    /\ loadedBiblioGroups = {}
    /\ biblioKeys = {}
    /\ biblioNumericSuffixes = <<>>
    /\ preferredBiblioNames = <<>>
    /\ fetched = EmptyBag
    /\ missed = EmptyBag
    /\ bcall = None
    /\ corpus = [k \in StoreKeys |-> Plain]
    /\ disk = BiblioDisk(corpus)
    /\ fcall = None

NextFrame ==
    \/ \E md \in MetadataPool : SetSpecData(md)
    \/ \E storage \in LocalBiblioPool : InitializeBiblio(storage)
    \/ \E r \in FrameRequests : GetRef(r)
    \/ \E r \in FrameBiblioRequests : GetBiblioRef(r)
    \/ TakeResult
    \/ TakeBiblioResult

SpecFrame == InitFrame /\ [][NextFrame]_vars

\* ------------------------------------------------ the collection steps
\* definitions of the value "x": for the descriptor "d", for "@r/d" (which
\* makes it for "d" as well), for nothing (twice), for "d" again, and one
\* of a kind that does not exist
LocalDfnPool ==
    { Dfn(<<97>>, "value", Some(<< <<"d">> >>), << <<"x">> >>),
      Dfn(<<98>>, "value", Some(<< <<"@", "r", "/", "d">> >>), << <<"x">> >>),
      Dfn(<<99>>, "value", None, << <<"x">> >>),
      Dfn(<<100>>, "value", None, << <<"X">> >>),
      Dfn(<<101>>, "value", Some(<< <<"d">>, forA >>), << <<"x">> >>),
      Dfn(<<102>>, "bogus", None, << <<"x">> >>) }

\* a manager just constructed
InitDfns ==
    /\ testing \in BOOLEAN
    /\ defaultStatus = "current"
    /\ shortname = None
    /\ spec = None
    /\ specLevel = None
    /\ defaultSpecs = <<>>
    /\ ignoredSpecs = {}
    /\ replacedSpecs = {}
    /\ localRefs = <<>>
    /\ anchorBlockRefs = <<>>
    /\ foreignRefs = <<>>
    /\ methods = <<>>
    /\ call = None
    /\ specs = <<>>
    /\ biblios = <<>>
    /\ loadedBiblioGroups = {}
    /\ biblioKeys = {}
    /\ biblioNumericSuffixes = <<>>
    /\ preferredBiblioNames = <<>>
    /\ fetched = EmptyBag
    /\ missed = EmptyBag
    /\ bcall = None
    /\ corpus = [k \in StoreKeys |-> Absent]
    /\ disk = <<>>
    /\ fcall = None

NextDfns ==
    \/ InitializeRefs
    \/ \E md \in MetadataPool : SetSpecData(md)
    \/ \E el \in LocalDfnPool : AddLocalDfns(el)

SpecDfns == InitDfns /\ [][NextDfns]_vars

\* ================================================================ claims
Called == call # None
req == call[1].req
out == call[1].out

\* the text getRef looks up for request r (lines 341-343)
NormText(r) ==
    IF r.linkType \in lowercaseTypes THEN Lower(unfixTypography(r.text))
    ELSE unfixTypography(r.text)

StatusKnown(r) == r.status = None \/ r.status[1] \in linkStatuses

\* what the local tier holds for request r
LocalMatchesOf(r) ==
    Q(localRefs, [QueryArgs EXCEPT !.linkType = Some(r.linkType), !.text = Some(NormText(r)),
                                   !.linkFor = r.linkFor]).refs

\* what the anchor-block tier holds for the parameters the call ended with
BlockMatchesOf(r, o) ==
    Q(anchorBlockRefs, [QueryArgs EXCEPT !.linkType = Some(o.trace.linkType),
                                         !.text = Some(NormText(r)),
                                         !.spec = o.trace.spec,
                                         !.linkFor = o.trace.linkFor]).refs

KindsOf(diags) == [i \in DOMAIN diags |-> diags[i].kind]
NoFatal(diags) == \A i \in DOMAIN diags : diags[i].sev # "fatal"
ForlessReported(o) == "ambiguous-forless" \in Range(KindsOf(o.diags))

\* some entry of tier has the text and a type request r may link to
Competes(tier, r) ==
    \E i \in DOMAIN tier :
        tier[i].text = NormText(r) /\ tier[i].type \in CompatibleTypes(r.linkType)

\* C1: without a spec, when the local tier has matches and the for-less guard
\* does not fire, getRef returns one of the local matches whatever the other
\* tiers hold; a single local match is returned without any diagnostic.
C1_LocalPrecedence ==
    Called =>
        LET lm == LocalMatchesOf(req)
        IN  (req.spec = None /\ StatusKnown(req) /\ lm # <<>> /\ ~ForlessReported(out)) =>
                /\ out.ret # None
                /\ out.ret[1] \in Range(lm)
                /\ out.tier = "local"
                /\ (Len(lm) = 1 => out.ret = Some(lm[1]) /\ out.diags = <<>>)

\* a single local match returned although the foreign tier holds an exported
\* entry for the same text and type
C1_Witness ==
    /\ Called
    /\ req.spec = None
    /\ Len(LocalMatchesOf(req)) = 1
    /\ out.ret = Some(LocalMatchesOf(req)[1])
    /\ out.diags = <<>>
    /\ \E i \in DOMAIN foreignRefs :
          /\ foreignRefs[i].text = NormText(req)
          /\ foreignRefs[i].type \in CompatibleTypes(req.linkType)
          /\ foreignRefs[i].export

\* C2: without a spec and without a for, the for-less guard fires only when
\* all local matches are for-scoped (and an exported for-less match exists
\* elsewhere); with a for-less local match it does not fire and a local entry
\* is returned.
C2_GuardOnlyWhenAllForScoped ==
    Called =>
        LET lm == LocalMatchesOf(req)
        IN  (req.spec = None /\ req.linkFor = NoFor /\ StatusKnown(req) /\ lm # <<>>) =>
                /\ (out.trace.guard = "local" =>
                       /\ \A i \in DOMAIN lm : lm[i].for_ # <<>>
                       /\ out.trace.forlessRefs # <<>>
                       /\ out.ret = None)
                /\ ((\E i \in DOMAIN lm : lm[i].for_ = <<>>) =>
                       /\ out.trace.guard # "local"
                       /\ out.ret # None
                       /\ out.ret[1] \in Range(lm))

\* C3: a call with status "local" never returns an anchor-block or foreign
\* entry; without a local match it returns null at once, before the default
\* rules and the other tiers are consulted, and emits nothing.
C3_LocalOnlyStops ==
    (Called /\ req.status = Some("local")) =>
            /\ out.tier \notin {"anchor-block", "foreign"}
            /\ ((req.spec # None \/ LocalMatchesOf(req) = <<>>) =>
                   /\ out.ret = None
                   /\ out.diags = <<>>
                   /\ out.trace.rule = None
                   /\ "anchor-block" \notin Range(out.trace.queried)
                   /\ "foreign" \notin Range(out.trace.queried))

\* a local-only call that found nothing locally although another tier has
\* an entry for the text and type
C3_Witness ==
    /\ Called
    /\ req.status = Some("local")
    /\ req.spec = None
    /\ LocalMatchesOf(req) = <<>>
    /\ out.ret = None
    /\ (Competes(anchorBlockRefs, req) \/ Competes(foreignRefs, req))

C5_ForeignResultExported ==
    (Called /\ out.tier = "foreign" /\ out.trace.spec = None) => out.ret[1].export

\* the request wants a failed lookup reported (line 339)
WantsFailureReport(r) == r.error /\ r.linkType \notin {"maybe", "extended-attribute"}

\* the link error each failure reason is reported with
ReasonMessage ==
    [f \in KnownFailures |->
        CASE f \in {"text", "type"} -> "no-refs"
          [] f = "spec" -> "no-spec"
          [] f = "status" -> "no-status"
          [] f = "for" -> "no-for"
          [] f = "export" -> "no-export"
          [] f = "ignored-specs" -> "only-ignored-specs"]

AllLinkErrors(diags) == \A i \in DOMAIN diags : diags[i].sev = "linkerror"
CorporaEmpty == localRefs = <<>> /\ anchorBlockRefs = <<>> /\ foreignRefs = <<>>
ReachesForeign(r) == StatusKnown(r) /\ r.status # Some("local")

\* a custom property ("--" name) that failed for text or type (lines 569-575)
CustomPropertyMiss(o, r) ==
    /\ o.trace.failure \in {"text", "type"}
    /\ o.trace.linkType \in {"property", "propdesc", "descriptor"}
    /\ StartsWith(NormText(r), <<"-", "-">>)

ReachedChoice(o, r) ==
    /\ o.trace.failure = "none"
    /\ o.trace.refs # <<>>
    /\ ~(o.trace.recovery /\ WantsFailureReport(r) /\ Len(o.trace.methodRefs) > 1)

\* the first match, or for propdesc the first match of kind property
PreferredOf(refs, linkType) ==
    LET props == {i \in DOMAIN refs : refs[i].type = "property"}
    IN  IF linkType = "propdesc" /\ props # {}
        THEN refs[CHOOSE i \in props : \A j \in props : i <= j]
        ELSE refs[1]

\* C7: one surviving foreign match is returned without any diagnostic; of
\* several the first (for propdesc the first property) is returned, with one
\* multiple-candidates link error naming it unless errors are suppressed.
C7_ForeignChoice ==
    Called =>
        LET fm == out.trace.refs
        IN  ReachedChoice(out, req) =>
                /\ out.ret # None /\ out.ret[1] \in Range(fm)
                /\ (Len(fm) = 1 => out.ret = Some(fm[1]) /\ out.diags = <<>>)
                /\ (Len(fm) > 1 =>
                       /\ out.ret = Some(PreferredOf(fm, out.trace.linkType))
                       /\ IF req.error
                          THEN KindsOf(out.diags) = <<"multiple-refs">> /\ AllLinkErrors(out.diags)
                          ELSE out.diags = <<>>)

\* the matches of the resolving query that had two or more of them
MultipleMatches(o) ==
    IF Len(o.trace.localMatches) >= 2 THEN o.trace.localMatches
    ELSE IF Len(o.trace.blockRefs) >= 2 THEN o.trace.blockRefs
    ELSE IF Len(o.trace.refs) >= 2 THEN o.trace.refs
    ELSE <<>>

LocalForlessCase(o) == o.trace.guard = "local"
BlockForlessCase(o) == o.trace.guard = "anchor-block"
MethodTargetsCase(o, r) ==
    o.trace.recovery /\ WantsFailureReport(r) /\ Len(o.trace.methodRefs) > 1

UrlLeq(a, b) == a = b \/ StrLess(a, b)

\* C9: in testing mode, with two or more local matches and no for-less
\* report, the match with the smallest url is returned, and the
\* multiple-local link error is emitted whenever errors are not suppressed.
C9_TestingPicksSmallestUrl ==
    Called =>
        LET lm == LocalMatchesOf(req)
        IN  (/\ testing /\ req.spec = None /\ StatusKnown(req)
             /\ Len(lm) >= 2 /\ ~ForlessReported(out)) =>
                /\ out.ret # None
                /\ out.ret[1] \in Range(lm)
                /\ \A i \in DOMAIN lm : UrlLeq(out.ret[1].url, lm[i].url)
                /\ (req.error =>
                       KindsOf(out.diags) = <<"multiple-local">> /\ AllLinkErrors(out.diags))

\* the smallest url belongs to the second local match, which is returned
C9_Witness ==
    /\ Called
    /\ testing
    /\ req.error
    /\ Len(LocalMatchesOf(req)) >= 2
    /\ StrLess(LocalMatchesOf(req)[2].url, LocalMatchesOf(req)[1].url)
    /\ out.ret = Some(LocalMatchesOf(req)[2])
    /\ KindsOf(out.diags) = <<"multiple-local">>

\* ------------------------------------------------------- biblio claims
BiblioCalled == bcall # None /\ bcall[1].op = "getBiblioRef"
breq == bcall[1].req
bout == bcall[1].out

\* what a call entered beyond MaxBiblioDepth did: nothing but emit the
\* fatal data error and return null
GaveUpAtOnce(d) ==
    /\ ~d.lookedUp
    /\ ~d.loaded
    /\ KindsOf(d.diags) = <<"biblio-infinite-recursion">>
    /\ d.diags[1].sev = "fatal"
    /\ d.ret = None
    /\ ~d.raised

\* C10: getBiblioRef terminates for every biblio store, cyclic ones
\* included: an invocation started at depth <= 100 never enters a call
\* deeper than 101 and makes at most 102 calls, and every call entered with
\* depth > 100 emits the fatal data error and returns null without any
\* lookup or corpus load.
C10_BiblioRecursionBounded ==
    BiblioCalled =>
        /\ (breq.depth <= MaxBiblioDepth =>
               /\ bout.maxDepth <= MaxBiblioDepth + 1
               /\ bout.calls <= MaxBiblioDepth + 2 - breq.depth)
        /\ \A i \in DOMAIN bout.deep : GaveUpAtOnce(bout.deep[i])
        /\ (breq.depth > MaxBiblioDepth =>
               /\ Len(bout.deep) = 1
               /\ bout.calls = 1
               /\ bout.ret = None
               /\ ~bout.raised
               /\ KindsOf(bout.diags) = <<"biblio-infinite-recursion">>)

\* an alias cycle followed from depth 0 until the call at depth 101 gave up
C10_Witness ==
    /\ BiblioCalled
    /\ breq.depth = 0
    /\ Lower(breq.text) \in StoreKeys
    /\ corpus[Lower(breq.text)].fmt = "alias"
    /\ bout.maxDepth = MaxBiblioDepth + 1
    /\ bout.calls = MaxBiblioDepth + 2
    /\ Len(bout.deep) = 1
    /\ bout.ret = None

\* the alias chain that starts at key: its final key (the first whose best
\* candidate is not an alias, or that holds nothing), the number of links
\* followed, and whether it ended (a chain that comes back to a key of seen
\* is a cycle and has no final key)
RECURSIVE AliasTarget(_, _, _)
AliasTarget(st, key, seen) ==
    LET look == bibliosFromKey(st, key)
    IN  IF key \in seen
        THEN [target |-> key, length |-> Cardinality(seen), ended |-> FALSE]
        ELSE IF \/ look.candidates = <<>>
                \/ bestCandidateBiblio(look.candidates).biblioFormat # "alias"
        THEN [target |-> key, length |-> Cardinality(seen), ended |-> TRUE]
        ELSE AliasTarget(look.st, Lower(bestCandidateBiblio(look.candidates).aliasOf),
                         seen \cup {key})

\* the alias chain the requested key heads
ChainOf(r) == AliasTarget(BiblioState, Lower(r.text), {})

\* the same call made on the final target of the chain
DirectCall(r) ==
    Visible(getBiblioRef(BiblioState, ChainOf(r).target, r.status, r.generateFakeRef,
                         r.allowObsolete, r.quiet, r.depth))

\* C11: a getBiblioRef call on the head of an alias chain of length
\* 1 <= N <= 100 returns the same entry (same record, same display text)
\* as the same call made on the chain's final non-alias target, for every
\* status, allowObsolete and canonical-name table.
C11_AliasSameAsTarget ==
    (/\ BiblioCalled
     /\ breq.depth = 0
     /\ ChainOf(breq).ended
     /\ ChainOf(breq).length >= 1
     /\ ChainOf(breq).length <= MaxBiblioDepth)
    => /\ bout.ret = DirectCall(breq).ret
       /\ bout.raised = DirectCall(breq).raised

\* the key a call looks up, and the unversioned key its numeric suffix hides
KeyOf(r) == Lower(r.text)
BaseOf(r) == UnversionedKey(KeyOf(r))

\* the requested key carries a numeric suffix and is not held once its group
\* is loaded, while the unsuffixed key is
SuffixMiss(r) ==
    /\ BaseOf(r) # None
    /\ Group(KeyOf(r)) \in loadedBiblioGroups
    /\ KeyOf(r) \notin DOMAIN biblios
    /\ BaseOf(r)[1] \in DOMAIN biblios

\* the same call made for the unsuffixed key
UnsuffixedCall(r) ==
    Visible(getBiblioRef(BiblioState, BaseOf(r)[1], r.status, r.generateFakeRef,
                         r.allowObsolete, r.quiet, r.depth))

\* a call from outside asked for a suffixed key that only exists unsuffixed,
\* no numeric suffix of it being on record
FallbackCase ==
    /\ BiblioCalled
    /\ breq.depth = 0
    /\ SuffixMiss(breq)
    /\ BaseOf(breq)[1] \notin DOMAIN biblioNumericSuffixes

\* C12 as stated: in the numeric-suffix fallback the call resolves as a
\* request for the unsuffixed key would and emits no diagnostic at all.
C12_FallbackSilent ==
    FallbackCase =>
        /\ bout.ret = UnsuffixedCall(breq).ret
        /\ bout.raised = UnsuffixedCall(breq).raised
        /\ bout.diags = <<>>

\* C12: in the numeric-suffix fallback the call returns what a request for
\* the unsuffixed key returns and emits the diagnostics of that request and
\* no other: the substitution itself is silent.
C12_FallbackAsUnsuffixed ==
    FallbackCase =>
        /\ bout.ret = UnsuffixedCall(breq).ret
        /\ bout.raised = UnsuffixedCall(breq).raised
        /\ bout.diags = UnsuffixedCall(breq).diags

\* aa-1 was asked for, only aa exists, and aa's entry came back
C12_Witness ==
    /\ FallbackCase
    /\ breq.text = k_aa1
    /\ bout.ret # None
    /\ bout.ret[1].class = "BiblioEntry"
    /\ bout.ret[1].linkText = k_aa
    /\ bout.diags = <<>>

\* a call from outside asked for a suffixed key that is not held while other
\* numeric suffixes of the unsuffixed key are on record
WrongSuffixCase ==
    /\ BiblioCalled
    /\ breq.depth = 0
    /\ SuffixMiss(breq)
    /\ BaseOf(breq)[1] \in DOMAIN biblioNumericSuffixes

\* the wrong-suffix error, listing the suffixed keys on record
WrongSuffixError(r) ==
    Diag("fatal", "biblio-wrong-suffix", biblioNumericSuffixes[BaseOf(r)[1]])

\* does the call fabricate an entry from the spec data (line 673)
Fabricates(r) == KeyOf(r) \in DOMAIN specs /\ r.generateFakeRef

\* C13 as stated: a wrong-suffix miss reports the wrong-suffix error
\* listing the existing suffixed keys and returns null.
C13_WrongSuffixReported ==
    WrongSuffixCase =>
        /\ bout.ret = None
        /\ bout.diags = <<WrongSuffixError(breq)>>

\* C13: a wrong-suffix miss never returns the unsuffixed key's entry.  It
\* returns the entry made from the spec data, without a message, when
\* the key names a known spec and fake references are asked for; otherwise
\* it returns null, and reports the wrong-suffix error listing the existing
\* suffixed keys unless the call is quiet.
C13_WrongSuffixFails ==
    WrongSuffixCase =>
        /\ ~bout.raised
        /\ bout.calls = 1
        /\ (Fabricates(breq) =>
               /\ bout.ret = Some(SpecBasedBiblioEntry(specs[KeyOf(breq)], breq.status))
               /\ bout.diags = <<>>)
        /\ (~Fabricates(breq) =>
               /\ bout.ret = None
               /\ bout.diags = IF breq.quiet THEN <<>> ELSE <<WrongSuffixError(breq)>>)

\* aa-2 was asked for while aa and aa-1 exist: the error lists aa-1
C13_Witness ==
    /\ WrongSuffixCase
    /\ breq.text = k_aa2
    /\ ~breq.quiet /\ ~breq.generateFakeRef
    /\ bout.ret = None
    /\ bout.diags = <<Diag("fatal", "biblio-wrong-suffix", <<k_aa1>>)>>

\* the candidate the call r selects for its key, the key being held
SelectedOf(held, r) == bestCandidateBiblio(held[KeyOf(r)])

\* the key of r is held and the entry selected for it is an obsoleted one
\* (lines 696: neither a string nor an alias, obsoletedBy not blank)
SelectsObsoleted(held, r) ==
    /\ KeyOf(r) \in DOMAIN held
    /\ SelectedOf(held, r).biblioFormat \notin {"string", "alias"}
    /\ SelectedOf(held, r).obsoletedBy # <<>>

\* resolving the replacement of the obsoleted entry r selects
ReplacementCall(r) ==
    Visible(getBiblioRef(BiblioState, SelectedOf(biblios, r).obsoletedBy, r.status, FALSE,
                         FALSE, TRUE, r.depth + 1))

\* C14: resolving a key whose selected entry has a non-blank obsoletedBy
\* with allowObsolete false returns the entry that resolving the replacement
\* gives, and emits exactly one advisory, of non-fatal severity, naming the
\* obsolete key and its replacement.
C14_ObsoleteFollowedWithAdvisory ==
    (/\ BiblioCalled
     /\ breq.depth = 0
     /\ ~breq.allowObsolete
     /\ SelectsObsoleted(biblios, breq))
    => /\ ~bout.raised
       /\ bout.ret = ReplacementCall(breq).ret
       /\ Len(bout.diags) = 1
       /\ bout.diags[1].kind = "biblio-obsolete"
       /\ bout.diags[1].sev # "fatal"
       /\ bout.diags[1].payload.old = SelectedOf(biblios, breq).linkText
       /\ bout.ret # None => bout.diags[1].payload.new = bout.ret[1].linkText

\* the call about to be made: a getBiblioRef call r from outside
Calling(r) ==
    /\ bcall = None
    /\ bcall' # None
    /\ bcall'[1].op = "getBiblioRef"
    /\ bcall'[1].req = r

\* C15: resolving a key whose selected entry has a non-blank obsoletedBy
\* with allowObsolete true returns that obsolete entry itself (under its
\* canonical name, when one is established), makes no recursive call,
\* loads no group but the key's own, and emits no diagnostic.
C15_ObsoleteAllowed ==
    [][\A r \in BiblioRequests :
          (/\ Calling(r)
           /\ r.depth = 0
           /\ r.allowObsolete
           /\ SelectsObsoleted(biblios', r))
          => /\ bcall'[1].out.ret
                  = Some(UsePreferredName(BiblioEntry(r.status, SelectedOf(biblios', r))))
             /\ ~bcall'[1].out.raised
             /\ bcall'[1].out.calls = 1
             /\ bcall'[1].out.diags = <<>>
             /\ loadedBiblioGroups' \subseteq loadedBiblioGroups \cup {Group(KeyOf(r))}
             /\ \A g \in BagToSet(fetched') :
                    g # Group(KeyOf(r)) => CopiesIn(g, fetched') = CopiesIn(g, fetched)]_vars

\* aa, obsoleted by zz, was asked for with allowObsolete: the aa entry came
\* back and the group of zz has not been loaded
C15_Witness ==
    /\ BiblioCalled
    /\ breq.allowObsolete
    /\ breq.text = k_aa
    /\ SelectsObsoleted(biblios, breq)
    /\ SelectedOf(biblios, breq).obsoletedBy = k_zz
    /\ bout.ret # None
    /\ bout.ret[1].linkText \in {k_aa, k_AA}
    /\ bout.ret[1].obsoletedBy = k_zz
    /\ Group(k_zz) \notin loadedBiblioGroups
    /\ bout.diags = <<>>

\* the biblio call about to be made, of whatever kind
BiblioCalling == bcall = None /\ bcall' # None

\* the key the call about to be made looks up first
FirstKey ==
    IF bcall'[1].op = "getBiblioRef" THEN Lower(bcall'[1].req.text) ELSE bcall'[1].req

\* the call about to be made looks up nothing but its first key
SingleLookup ==
    bcall'[1].op = "getBiblioRef" => bcall'[1].out.calls = 1 /\ bcall'[1].out.deep = <<>>

\* C16: across getBiblioRef, bibliosFromKey and getLatestBiblioRef calls
\* the group file of a key prefix is fetched at most once, also when the
\* fetch found no file; a lookup of a key already held fetches nothing;
\* loadedBiblioGroups never loses a member.
C16_GroupFetchedOnce ==
    /\ [](\A g \in BagToSet(fetched) : CopiesIn(g, fetched) <= 1 /\ g \in loadedBiblioGroups)
    /\ [][/\ loadedBiblioGroups \subseteq loadedBiblioGroups'
          /\ (BiblioCalling /\ SingleLookup /\ FirstKey \in DOMAIN biblios)
                 => fetched' = fetched /\ loadedBiblioGroups' = loadedBiblioGroups
          /\ \A g \in loadedBiblioGroups : CopiesIn(g, fetched') = CopiesIn(g, fetched)]_vars

\* the group of zz, which has no file, has been looked up twice for a key
\* that is not held and was fetched once
C16_Witness ==
    /\ bcall # None
    /\ CopiesIn(Group(k_zz), missed) = 2
    /\ CopiesIn(Group(k_zz), fetched) = 1
    /\ buildPath(GroupSegs(Group(k_zz)), "readonly") \notin DOMAIN disk
    /\ CopiesIn(Group(k_aa), missed) = 2
    /\ CopiesIn(Group(k_aa), fetched) = 1
    /\ k_aa1 \in DOMAIN biblios

LatestCalled == bcall # None /\ bcall[1].op = "getLatestBiblioRef"

\* the entry made of the best candidate held under key k
LatestEntry(k) == BiblioEntry(None, bestCandidateBiblio(biblios[k]))

\* C17: getLatestBiblioRef(key) returns the best candidate of the loaded
\* entry of greatest date among those whose key starts with key and ends
\* in an 8-digit date, whenever such an entry is loaded, and null only when
\* none is.
C17_LatestDatedReturned ==
    LatestCalled =>
        IF DatedKeys(biblios, bcall[1].req) = {}
        THEN bcall[1].out = None
        ELSE \E k \in DatedKeys(biblios, bcall[1].req) :
                /\ bcall[1].out = Some(LatestEntry(k))
                /\ \A j \in DatedKeys(biblios, bcall[1].req) :
                       ~DateGreater(DateOf(j)[1], DateOf(k)[1])

\* ------------------------------------------------------ requester claims
FetchCalled == fcall # None
freq == fcall[1].req
fout == fcall[1].out

\* the requester r, its fallback, the fallback of that one, and so on
RECURSIVE FallbackChain(_)
FallbackChain(r) ==
    <<r>> \o (IF r.fallback = None THEN <<>> ELSE FallbackChain(r.fallback[1]))

\* the places a fetch call looks in, in order: the primary location, then
\* the location of each requester down the fallback chain
PlacesOf(r) ==
    <<buildPath(r.segs, IF r.type = None THEN r.self.type ELSE r.type[1])>>
    \o [i \in 1..(Len(FallbackChain(r.self)) - 1) |->
           buildPath(r.segs, FallbackChain(r.self)[i + 1].type)]

\* the places of the call that hold a file
Finds(r) == {i \in DOMAIN PlacesOf(r) : PlacesOf(r)[i] \in DOMAIN disk}

FirstFind(r) == CHOOSE i \in Finds(r) : \A j \in Finds(r) : i <= j

\* C19: fetch returns the content of the primary location whenever that
\* can be opened, whatever the fallback; otherwise what the fallback
\* requester finds (the first place down the fallback chain that holds the
\* file); when the file is in no place it returns the empty value (empty
\* string, or empty stream) with okayToFail and raises OSError without.
C19_FetchFallsBack ==
    FetchCalled =>
        /\ (1 \in Finds(freq) =>
               fout = Returned(IF freq.str THEN "str" ELSE "stream",
                               disk[PlacesOf(freq)[1]]))
        /\ (Finds(freq) # {} =>
               fout = Returned(IF freq.str THEN "str" ELSE "stream",
                               disk[PlacesOf(freq)[FirstFind(freq)]]))
        /\ (Finds(freq) = {} /\ freq.okayToFail =>
               fout = Returned(IF freq.str THEN "str" ELSE "stream", <<>>))
        /\ (Finds(freq) = {} /\ ~freq.okayToFail =>
               /\ fout.raised
               /\ fout.exc = "OSError")

\* the default requester found the file in the read-only place only
C19_Witness ==
    /\ FetchCalled
    /\ freq.self = defaultRequester
    /\ freq.type = None
    /\ Finds(freq) = {2}
    /\ ~fout.raised
    /\ fout.value.data = <<"x">>

\* -------------------------------------------------------- query claims
QueryCalled == call # None /\ call[1].op = "queryAllRefs"
qreq == call[1].req
qout == call[1].out

\* the queries that narrow the spec filter of q
NarrowSpec(q) ==
    IF q.spec = None
    THEN {[q EXCEPT !.spec = Some(s)] : s \in {"s1", "s1-1", "s2"}}
    ELSE IF q.spec = Some("s1") THEN {[q EXCEPT !.spec = Some("s1-1")]}
    ELSE {}

\* the queries that narrow the status filter of q: an exact status where
\* none was asked for, or a status hint where there was no status filter
NarrowStatus(q) ==
    IF q.status # None THEN {}
    ELSE {[q EXCEPT !.status = Some(s)] : s \in {"current", "snapshot"}}
         \cup (IF q.statusHint # None THEN {}
               ELSE {[q EXCEPT !.statusHint = Some(s)] : s \in {"current", "snapshot"}})

\* the queries that narrow the for filter of q: a for where none was asked
\* for, fewer values of a for list, a hint, fewer values of the hint, or
\* the hint made explicit
NarrowFor(q) ==
    (IF q.linkFor = NoFor
     THEN {[q EXCEPT !.linkFor = f] : f \in {StrFor(forA), ListFor(<<forA, forI>>), ForLess}}
     ELSE IF q.linkFor = ListFor(<<forA, forI>>)
     THEN {[q EXCEPT !.linkFor = f] : f \in {StrFor(forA), ListFor(<<forI>>)}}
     ELSE {})
    \cup (IF q.linkForHint = NoFor
          THEN {[q EXCEPT !.linkForHint = f] : f \in {ListFor(<<forI>>), ListFor(<<forA, forI>>)}}
          ELSE {})
    \cup (IF q.linkForHint # NoFor /\ ~q.explicitFor
          THEN {[q EXCEPT !.explicitFor = TRUE]}
          ELSE {})

\* the query that narrows the export filter of q
NarrowExport(q) == IF q.export = None THEN {[q EXCEPT !.export = Some(TRUE)]} ELSE {}

\* the queries that differ from q in one narrowed filter
Narrowings(q) == NarrowSpec(q) \cup NarrowStatus(q) \cup NarrowFor(q) \cup NarrowExport(q)

\* the narrowed query gives no more matches than the query, in the foreign
\* tier and over all tiers
NoMoreMatches(q, narrowed) ==
    /\ Len(Q(foreignRefs, narrowed).refs) <= Len(Q(foreignRefs, q).refs)
    /\ Len(queryAllRefs(narrowed)) <= Len(queryAllRefs(q))

OverridesHint(q, narrowed) ==
    \/ narrowed.status # q.status /\ q.statusHint # None
    \/ narrowed.linkFor # q.linkFor /\ q.linkFor = NoFor /\ q.linkForHint # NoFor

TooManyOverloads(o) == o.trace.recovery /\ Len(o.trace.possibleMethods) > 1

\* C20: when the argument/idl recovery is left with more than one candidate
\* signature group, getRef emits the too-many-overloads link error and
\* returns null: it does not query the foreign tier again with any of the
\* candidates and chooses no default.
C20_OverloadsReturnNull ==
    Called /\ TooManyOverloads(out) =>
        /\ out.ret = None
        /\ KindsOf(out.diags) = <<"too-many-overloads">>
        /\ AllLinkErrors(out.diags)
        /\ ~out.trace.retried

\* C20, what the code does instead: the link error is emitted first and the
\* foreign tier is then queried again with the signatures of the first
\* group, whose match, if any, is returned.
C20_OverloadsRetried ==
    Called /\ TooManyOverloads(out) =>
        /\ out.trace.retried
        /\ KindsOf(out.diags)[1] = "too-many-overloads"

\* a call with two candidate signature groups returned a foreign entry
C20_Returned ==
    /\ Called
    /\ TooManyOverloads(out)
    /\ out.ret # None
    /\ out.tier = "foreign"

\* ------------------------------------------------- custom property claims
\* the call is for a custom property or descriptor: a property, descriptor
\* or propdesc link whose text starts with "--"
CustomPropertyCall(o, r) ==
    /\ o.trace.linkType \in {"property", "propdesc", "descriptor"}
    /\ StartsWith(NormText(r), <<"-", "-">>)

\* the foreign lookup of the call failed
ForeignFailed(o) == o.trace.failure \in KnownFailures

\* C21 (as stated): a call for a custom property whose foreign lookup fails
\* returns null and emits no diagnostic, whatever the failure reason.
C21_CustomPropertySilent ==
    Called /\ CustomPropertyCall(out, req) /\ ForeignFailed(out) =>
        out.ret = None /\ out.diags = <<>>

\* C21 (amended): a call for a custom property whose foreign lookup fails
\* returns null; it emits no diagnostic when the failure reason is text or
\* type, and for any other reason it emits the link error of that reason
\* as for any other text, unless errors are suppressed.
C21_CustomPropertySilentUndefined ==
    Called /\ CustomPropertyCall(out, req) /\ ForeignFailed(out) =>
        /\ out.ret = None
        /\ (out.trace.failure \in {"text", "type"} => out.diags = <<>>)
        /\ (out.trace.failure \notin {"text", "type"} =>
               /\ AllLinkErrors(out.diags)
               /\ KindsOf(out.diags) = IF WantsFailureReport(req)
                                       THEN <<ReasonMessage[out.trace.failure]>> ELSE <<>>)

\* a custom property that no tier defines was asked for with errors wanted,
\* while the foreign tier holds another entry
C21_Witness ==
    /\ Called
    /\ req.error
    /\ CustomPropertyCall(out, req)
    /\ out.trace.failure = "text"
    /\ foreignRefs # <<>>
    /\ out.ret = None
    /\ out.diags = <<>>

\* a custom property the foreign tier holds unexported is reported
C21_Reported ==
    /\ Called
    /\ CustomPropertyCall(out, req)
    /\ out.trace.failure = "export"
    /\ KindsOf(out.diags) = <<"no-export">>

\* ------------------------------------------------- default rule claims
\* the call reached the default-link-rule step (line 402)
ReachedDefaults(o, r) ==
    /\ StatusKnown(r)
    /\ r.status # Some("local")
    /\ o.tier # "local"
    /\ o.trace.guard # "local"

\* the values getRef works with before the rules: the spec in lower case
GivenSpec(r) == IF r.spec = None THEN None ELSE Some(LowerName(r.spec[1]))

\* the rules registered for the text of the request, oldest first
RegisteredRules(r) ==
    IF NormText(r) \in DOMAIN defaultSpecs THEN defaultSpecs[NormText(r)] ELSE <<>>

\* rule d is of a kind the link type may link to and its for, if it has one,
\* is the given for or one of the given fors
Compatible(d, r) ==
    /\ d.type \in CompatibleTypes(r.linkType)
    /\ (r.linkFor # NoFor /\ d.for # None => d.for[1] \in Range(r.linkFor.v))

\* the positions of the compatible rules when spec, status or for is unset
Qualifying(r) ==
    IF GivenSpec(r) # None /\ r.status # None /\ r.linkFor # NoFor THEN {}
    ELSE {i \in DOMAIN RegisteredRules(r) : Compatible(RegisteredRules(r)[i], r)}

\* the most recently registered of the qualifying rules
Newest(r) == RegisteredRules(r)[CHOOSE i \in Qualifying(r) : \A j \in Qualifying(r) : j <= i]

\* C22: at the default-link-rule step getRef applies at most one rule, the
\* most recently registered rule for the text that is compatible in kind
\* and for; the rule fills those of spec, status and for that were unset,
\* never one the caller gave, and its kind replaces the link type; when no
\* rule qualifies the parameters are unchanged.
C22_NewestRuleApplied ==
    Called /\ ReachedDefaults(out, req) =>
        IF Qualifying(req) = {}
        THEN /\ out.trace.rule = None
             /\ out.trace.linkType = req.linkType
             /\ out.trace.spec = GivenSpec(req)
             /\ out.trace.status = req.status
             /\ out.trace.linkFor = req.linkFor
        ELSE /\ out.trace.rule = Some(Newest(req))
             /\ out.trace.linkType = Newest(req).type
             /\ out.trace.spec = IF GivenSpec(req) # None THEN GivenSpec(req)
                                  ELSE Newest(req).spec
             /\ out.trace.status = IF req.status # None THEN req.status
                                    ELSE Newest(req).status
             /\ out.trace.linkFor = IF req.linkFor # NoFor THEN req.linkFor
                                     ELSE IF Newest(req).for = None THEN NoFor
                                     ELSE StrFor(Newest(req).for[1])

\* three rules are registered, two of them qualify, and the newer of the two
\* was applied: it filled the status and the for and left the spec the
\* caller gave
C22_Witness ==
    /\ Called
    /\ ReachedDefaults(out, req)
    /\ Len(RegisteredRules(req)) = 3
    /\ Cardinality(Qualifying(req)) = 2
    /\ out.trace.rule = Some(Newest(req))
    /\ req.spec # None
    /\ Newest(req).spec # out.trace.spec
    /\ req.linkFor = NoFor
    /\ out.trace.linkFor # NoFor
    /\ req.status = None
    /\ out.trace.status # None

\* ------------------------------------------------- suppressed error claims
\* C23: a getRef call with error reporting suppressed (error=False) emits
\* no diagnostic of any severity on any path; it only returns an entry or
\* null.
C23_SuppressedSilent ==
    Called /\ ~req.error => out.diags = <<>>

\* a suppressed call among several anchor-block matches returned the first
\* and reported the ambiguity all the same
C23_BlockReported ==
    /\ Called
    /\ ~req.error
    /\ out.tier = "anchor-block"
    /\ KindsOf(out.diags) = <<"multiple-refs">>

\* the diagnostics a suppressed call emits are the for-less warning of the
\* two guards, the anchor-block ambiguity and the too-many-overloads error
C23_SuppressedKinds ==
    Called /\ ~req.error =>
        \A k \in Range(KindsOf(out.diags)) :
            k \in {"ambiguous-forless", "multiple-refs", "too-many-overloads"}

\* ------------------------------------------------- report claims
\* simplifyPossibleRefs was called in its default mode
SimplifiedByDefault ==
    call # None /\ call[1].op = "simplifyPossibleRefs" /\ ~call[1].req.alwaysShowFor

\* the candidates given and the records made of them
given == call[1].req.refs
records == call[1].out

\* the (text, kind, spec) triples of the candidates
Triples(refs) == {<<refs[i].text, refs[i].type, refs[i].spec>> : i \in DOMAIN refs}

\* the candidates of one triple
Sharing(refs, k) == {r \in Range(refs) : <<r.text, r.type, r.spec>> = k}

\* the (for value, url) pairs the candidates of a triple carry, a for-less
\* candidate carrying "/"
ForUrlPairs(refs, k) ==
    {<<f, r.url>> : r \in {c \in Sharing(refs, k) : c.for_ = <<>>}, f \in {<<"/">>}}
    \cup UNION {{<<r.for_[i], r.url>> : i \in DOMAIN r.for_} : r \in Sharing(refs, k)}

\* the for values among them
ForValues(refs, k) == {p[1] : p \in ForUrlPairs(refs, k)}

\* the records displayed for a triple
RecordsOf(recs, k) == SelectSeqBy(recs, {c \in Range(recs) : <<c.text, c.type, c.spec>> = k})

\* one record without for for the triple
ForOmitted(recs, refs, k) ==
    /\ Len(RecordsOf(recs, k)) = 1
    /\ RecordsOf(recs, k)[1].for_ = None
    /\ \E p \in ForUrlPairs(refs, k) : RecordsOf(recs, k)[1].url = p[2]

\* one record per (for value, url) pair of the triple, the for value shown
ForShown(recs, refs, k) ==
    /\ Len(RecordsOf(recs, k)) = Cardinality(ForUrlPairs(refs, k))
    /\ \A i \in DOMAIN RecordsOf(recs, k) : RecordsOf(recs, k)[i].for_ # None
    /\ {<<c.for_[1], c.url>> : c \in {d \in Range(RecordsOf(recs, k)) : d.for_ # None}}
       = ForUrlPairs(refs, k)

ResolvedOwnKey ==
    /\ BiblioCalled
    /\ breq.depth = 0
    /\ KeyOf(breq) \in DOMAIN biblios
    /\ bout.calls = 1
    /\ ~bout.raised
    /\ bout.ret # None

\* the candidates stored under the key of the call
StoredFor(r) == biblios[KeyOf(r)]

\* the positions of the candidates of minimal order
MinimalOrder(cs) == {i \in DOMAIN cs : \A j \in DOMAIN cs : cs[i].order <= cs[j].order}

\* the earliest-inserted candidate of minimal order
Earliest(cs) == cs[CHOOSE i \in MinimalOrder(cs) : \A j \in MinimalOrder(cs) : i <= j]

\* entry e was made of candidate c: a string entry of a string candidate,
\* a full entry of any other, with the candidate's order
MadeOf(e, c) ==
    /\ e.order = c.order
    /\ (e.class = "StringBiblioEntry") = (c.biblioFormat = "string")

\* C25: the candidate getBiblioRef resolves is the one of minimal order
\* among the candidates stored under the key, the earliest inserted among
\* equals; a local override (order 2) is selected over the hardcoded entry
\* (order 3) and over corpus entries of the key.
C25_MinimalOrderSelected ==
    ResolvedOwnKey =>
        /\ MadeOf(bout.ret[1], Earliest(StoredFor(breq)))
        /\ ((\E i \in DOMAIN StoredFor(breq) : StoredFor(breq)[i].order = 2)
               => bout.ret[1].order = 2)

\* a key held twice by the local document, with equal order, resolved to the
\* first of the two
C25_Witness ==
    /\ ResolvedOwnKey
    /\ Cardinality(MinimalOrder(StoredFor(breq))) = 2
    /\ StoredFor(breq)[1].biblioFormat = "string"
    /\ StoredFor(breq)[2].biblioFormat = "dict"
    /\ bout.ret[1].class = "StringBiblioEntry"

\* a local override resolved while the hardcoded entry of the key is held
C25_OverHardcoded ==
    /\ ResolvedOwnKey
    /\ KeyOf(breq) = k_rfc2119
    /\ Len(StoredFor(breq)) = 2
    /\ StoredFor(breq)[2].order = 3
    /\ bout.ret[1].order = 2

\* a local override resolved while a corpus entry of the key is held
C25_OverCorpus ==
    /\ ResolvedOwnKey
    /\ \E i \in DOMAIN StoredFor(breq) : StoredFor(breq)[i].order = 4
    /\ bout.ret[1].order = 2

\* ------------------------------------------------- entry frame claims
\* a foreign entry that belongs to the document's own specification: its
\* status is not local and its shortname is the document's
SameSpec(e, sn) == e.status # "local" /\ e.shortname = sn

\* the three tiers are left as they are
TiersUnchanged ==
    /\ localRefs' = localRefs
    /\ anchorBlockRefs' = anchorBlockRefs
    /\ foreignRefs' = foreignRefs

\* C26: setSpecData (removeSameSpecRefs) sets export to false on exactly
\* the foreign entries whose status is not local and whose shortname is the
\* document's; it changes no other field, adds and removes no entry of any
\* tier; getRef and getBiblioRef leave every entry of the three tiers as it
\* is.
C26_OnlyExportCleared ==
    [][ /\ ((\E md \in MetadataPool : SetSpecData(md)) =>
              /\ localRefs' = localRefs
              /\ anchorBlockRefs' = anchorBlockRefs
              /\ Len(foreignRefs') = Len(foreignRefs)
              /\ \A i \in DOMAIN foreignRefs :
                    foreignRefs'[i] = IF SameSpec(foreignRefs[i], shortname')
                                      THEN [foreignRefs[i] EXCEPT !.export = FALSE]
                                      ELSE foreignRefs[i])
        /\ ((\E r \in FrameRequests : GetRef(r)) => TiersUnchanged)
        /\ ((\E r \in FrameBiblioRequests : GetBiblioRef(r)) => TiersUnchanged) ]_vars

\* the document's metadata is known, an exported entry of its specification
\* is no longer exported while the one of status local and the one of
\* another specification still are, and a getRef and a getBiblioRef call
\* have returned since
C26_Witness ==
    /\ shortname = Some("s2")
    /\ Len(foreignRefs) = 3
    /\ foreignRefs[1].url = Url(102, 5) /\ ~foreignRefs[1].export
    /\ foreignRefs[2].status = "local" /\ foreignRefs[2].export
    /\ foreignRefs[3].shortname = Some("s1") /\ foreignRefs[3].export
    /\ call # None /\ call[1].out.ret # None
    /\ bcall # None /\ bcall[1].out.ret # None

\* ------------------------------------------------- local definition claims
\* two local entries declare the same thing: same kind and text, and a for
\* value in common or no for at all in both
SameDeclaration(a, b) ==
    /\ a.type = b.type
    /\ a.text = b.text
    /\ \/ Range(a.for_) \cap Range(b.for_) # {}
       \/ a.for_ = <<>> /\ b.for_ = <<>>

\* the entry an element would insert re-declares an entry of another
\* element
Redeclares(refs, el) ==
    \E i \in DOMAIN refs :
        /\ refs[i].el # el.id
        /\ \E one \in {AddLinkText(<<>>, el, el.linkTexts[1]).refs} :
              one # <<>> /\ SameDeclaration(refs[i], one[1])

\* C27: no two local entries of different definition elements share a
\* (kind, text, for value), nor are two of them for-less with the same
\* (kind, text); a definition that would re-declare one, and a definition
\* of unknown kind, raise a fatal error and are not inserted.
C27_NoRedeclaration ==
    /\ [](\A i, j \in DOMAIN localRefs :
             localRefs[i].el # localRefs[j].el => ~SameDeclaration(localRefs[i], localRefs[j]))
    /\ [][\A el \in LocalDfnPool :
             AddLocalDfns(el) /\ (el.type \notin dfnTypes \/ Redeclares(localRefs, el))
             => /\ localRefs' = localRefs
                /\ \E d \in Range(AddLinkTexts(localRefs, el, el.linkTexts).diags) :
                      d.sev = "fatal"]_vars

\* the value defined for "d" and the one defined for "@r/d" are both held,
\* both for "d"
C27_BothHeld ==
    /\ Len(localRefs) = 2
    /\ localRefs[1].for_ = << <<"d">> >>
    /\ localRefs[2].for_ = << <<"@", "r", "/", "d">>, <<"d">> >>
    /\ localRefs[1].text = localRefs[2].text

\* what the duplicate test of addLocalDfns does keep apart: the for values
\* the elements declare themselves, and the for-less entries
C27_DeclaredForsDistinct ==
    \A i, j \in DOMAIN localRefs :
        localRefs[i].el # localRefs[j].el /\ SameDeclaration(localRefs[i], localRefs[j])
        => \E f \in Range(localRefs[j].for_) :
              /\ f \in Range(localRefs[i].for_)
              /\ Len(f) = 1
              /\ \E g \in Range(localRefs[i].for_) \cup Range(localRefs[j].for_) :
                     g[1] = "@" /\ SubSeq(g, 4, Len(g)) = f

\* ------------------------------------------------- error flag claims
\* what the same call returns in the same state with the error flag the
\* other way round
WithErrorFlipped(r) ==
    getRef(r.linkType, r.text, r.spec, r.status, r.linkFor, ~r.error, 1)

\* C28: the entry getRef returns does not depend on whether error reporting
\* is enabled: in testing mode the call with error=True and the call with
\* error=False return the same entry or both null.
C28_ErrorFlagOnlyReports ==
    Called /\ testing => WithErrorFlipped(req).ret = out.ret

\* a call with errors suppressed returned a foreign entry found by the
\* retry of the recovery, where the reporting call returns null
C28_Differs ==
    /\ Called /\ testing
    /\ ~req.error
    /\ out.ret # None
    /\ WithErrorFlipped(req).ret = None

\* C28, outside the recovery: the two calls return the same
C28_SameOutsideRecovery ==
    Called /\ testing /\ ~(out.trace.recovery /\ Len(out.trace.methodRefs) > 1)
    => WithErrorFlipped(req).ret = out.ret

\* ------------------------------------------------- completion claims
\* the replacement of the obsoleted entry r selects does not resolve
ReplacementMissing(r) ==
    /\ ~r.allowObsolete
    /\ SelectsObsoleted(biblios, r)
    /\ ReplacementCall(r).ret = None

\* C29: getBiblioRef always completes with either an entry or null: when
\* the selected entry's obsoletedBy names a key that does not resolve and
\* allowObsolete is false, the call returns null rather than failing on the
\* null result of the recursive resolution.
C29_AlwaysCompletes ==
    BiblioCalled =>
        /\ ~bout.raised
        /\ (breq.depth = 0 /\ ReplacementMissing(breq) => bout.ret = None)

\* an obsoleted entry whose replacement does not resolve: the call ends in
\* the AttributeError, quiet or not
C29_Fails ==
    /\ BiblioCalled
    /\ breq.depth = 0
    /\ ReplacementMissing(breq)
    /\ bout.raised

\* ------------------------------------------------- explicit spec claims
\* the caller named a spec
ExplicitSpec == Called /\ req.spec # None

\* C30: when the caller supplies an explicit spec, getRef never queries the
\* local tier, so the result is never taken from the local tier even if a
\* matching local definition exists; a call with an explicit spec and status
\* "local" returns null without querying any tier.
C30_LocalTierNeverQueried ==
    ExplicitSpec =>
        /\ "local" \notin Range(out.trace.queried)
        /\ out.tier # "local"
        /\ (req.status = Some("local") => out.ret = None /\ out.trace.queried = <<>>)

\* the query of step i of the call is the method lookup of the recovery
\* (line 535), made after the foreign tier failed to resolve the link
MethodLookup(o, i) ==
    /\ o.trace.recovery
    /\ i > 1
    /\ o.trace.queried[i - 1] = "foreign"

\* C30, as the code has it: when the caller supplies an explicit spec, getRef
\* never queries the local tier to resolve the link (the only query of the
\* local tier is the method lookup of the argument recovery, whose matches
\* are not returned), so the result is never taken from the local tier even
\* if a matching local definition exists; a call with an explicit spec and
\* status "local" returns null without querying any tier.
C30_LocalTierNeverResolves ==
    ExplicitSpec =>
        /\ \A i \in DOMAIN out.trace.queried :
               out.trace.queried[i] = "local" => MethodLookup(out, i)
        /\ out.tier # "local"
        /\ out.trace.localMatches = <<>>
        /\ (req.status = Some("local") => out.ret = None /\ out.trace.queried = <<>>)

\* a spec was named, the local tier holds a match, and the entry returned
\* comes from the foreign tier
C30_Witness ==
    /\ ExplicitSpec
    /\ LocalMatchesOf(req) # <<>>
    /\ out.ret # None
    /\ out.tier = "foreign"
    /\ out.ret[1] \notin Range(LocalMatchesOf(req))

\* a spec and status "local" were given while the local tier holds a match
C30_LocalStatusWitness ==
    /\ ExplicitSpec
    /\ req.status = Some("local")
    /\ LocalMatchesOf(req) # <<>>
    /\ out.ret = None
    /\ out.trace.queried = <<>>

\* a spec was named and the recovery looked the method up in the local tier
C30_MethodLookedUpLocally ==
    /\ ExplicitSpec
    /\ "local" \in Range(out.trace.queried)

====
